---------------------------- MODULE Spec2Model ----------------------------
(***************************************************************************)
(* A model of the `unsecure` library's bounded random draw (one-shot and   *)
(* buffered session), secure shuffle, secure string generation and         *)
(* constant-time comparison.                                               *)
(*                                                                         *)
(* Numbers.  A JavaScript number is an IEEE-754 double.  The model scales  *)
(* the two sizes the draw depends on: the entropy source has Word distinct *)
(* raw words (2^32 in the source) and a double represents every integer    *)
(* up to 2^MantissaBits exactly (2^53 in the source); above that           *)
(* only multiples of 2, 4, ... exist and arithmetic rounds to nearest,     *)
(* ties to even.  Numbers that enter a call from outside (arguments, the   *)
(* members of an exclusion input) are written in HALF UNITS, h standing    *)
(* for h/2, so that non-integers exist; once a call has validated its      *)
(* bounds it works in integer units.                                       *)
(*                                                                         *)
(* The bitwise operators of secureCompare work on integers of IntBits bits *)
(* (32 in the source).  secureGenerate's default length and default        *)
(* alphabets are scaled as well; its draws come from a session of its own, *)
(* which no other call sees, and are modelled by the values they return.   *)
(***************************************************************************)
EXTENDS Integers, Sequences, FiniteSets, TLC

\* ------------------------------------------------------------------ bounds

\* The number of distinct raw words of the entropy source (2 ** 32 in the
\* source, which uses it as a number only: in the range check and in maxSafe).
Word == 4
\* Bits of exactly represented integers of a number (a double has 53).
MantissaBits == 3
\* Words a session prefetches at a time (the source prefetches 256).
BUFFER_SIZE == 2
\* Bits of the integers the bitwise operators ^ and | work on (32 in the
\* source, ToInt32); more than the 8 of a byte.
IntBits == 9
\* The longest text (in UTF-16 code units) and byte sequence compared.
MaxTextLen == 2
MaxBytesLen == 2
\* DEFAULT_LENGTH, scaled (16 in the source): one more than the four classes.
DEFAULT_LENGTH == 5
\* The characters of a default alphabet (26, 26, 10 and 28 in the source).
AlphabetLen == 2
\* The objects of a heap handed to sanitizeObject.
MaxNodes == 3

\* The raw words crypto.getRandomValues can put in a Uint32Array cell.
Words == 0 .. (Word - 1)
\* 2 ** 53 of a double: the largest n such that every integer in -n..n exists.
MAX_EXACT == 2 ^ MantissaBits

\* ----------------------------------------------------------- JS numbers

Abs(n) == IF n < 0 THEN -n ELSE n

\* The gap between neighbouring doubles at magnitude m.
RECURSIVE Ulp(_)
Ulp(m) == IF m <= MAX_EXACT THEN 1 ELSE 2 * Ulp((m + 1) \div 2)

\* The double nearest to the integer n (round to nearest, ties to even).
RoundNumber(n) ==
  LET m == Abs(n)
      u == Ulp(m)
      q == m \div u
      r == m % u
      up == (2 * r > u) \/ (2 * r = u /\ q % 2 = 1)
      mag == IF r = 0 THEN m ELSE IF up THEN (q + 1) * u ELSE q * u
  IN  IF n < 0 THEN -mag ELSE mag

\* n is a value a number can hold.
IsNumber(n) == RoundNumber(n) = n

\* x + y and x - y on numbers holding integers.
NumAdd(x, y) == RoundNumber(x + y)
NumSub(x, y) == RoundNumber(x - y)

\* Half units: H(n) is the integer n, an odd h is a non-integer.
H(n) == 2 * n
IsInteger(h) == h % 2 = 0
IntOf(h) == h \div 2

\* ------------------------------------------------------- argument values

Undefined == [kind |-> "undefined", h |-> 0, items |-> << >>]
Null == [kind |-> "null", h |-> 0, items |-> << >>]
NumberArg(h) == [kind |-> "number", h |-> h, items |-> << >>]
\* A Set holding `items` (in insertion order, no repetition).
SetArg(items) == [kind |-> "Set", h |-> 0, items |-> items]
ArrayArg(items) == [kind |-> "Array", h |-> 0, items |-> items]
\* An iterable that is neither a Set nor an array (a generator object).
IterableArg(items) == [kind |-> "iterable", h |-> 0, items |-> items]
StringArg == [kind |-> "string", h |-> 0, items |-> << >>]
\* A value with no Symbol.iterator (a plain object, a boolean).
ObjectArg == [kind |-> "object", h |-> 0, items |-> << >>]

SeqRange(s) == {s[k] : k \in 1 .. Len(s)}

\* Error messages of the draw.
ERR_INTEGERS == "min and max must be integers."
ERR_ORDER == "max must be greater than min."
ERR_TOO_LARGE == "range must be less than or equal to 2^32."
ERR_IGNORE_TYPE == "ignore must be an iterable of numbers or a Set<number>."
ERR_EXHAUSTED == "Ignore set excludes all possible values in the range."

\* ------------------------------------------------------------ the state

VARIABLES
  buffer,       \* per session: the Uint32Array(BUFFER_SIZE) of prefetched words
  index,        \* per session: the cursor into buffer
  unread,       \* per session: the words the entropy source has delivered to
                \* it and no loop iteration has read
  fn,           \* the draw function in use: "next" or "secureRandomNumber"
  gen,          \* the session the running next() belongs to
  pc,           \* position of the draw: "idle", "loop", "returned", "thrown"
  args,         \* <<a, b, c>>: the arguments of the current call
  min,          \* locals of the current call, in integer units
  max,
  range,
  ignoreSet,    \* [defined, set]: the normalised exclusion set (members in half units)
  maxSafe,
  randomValue,
  candidate,
  result,       \* the value returned
  error,        \* the message of the error thrown, "" when none
  cmp,          \* the frame of secureCompare: [pc, reference, incoming, a, b,
                \* isIncomingUndefined, mismatch, i, steps, result, error]
  shf,          \* the frame of secureShuffle: [pc, array, generator, gen, i,
                \* elements, before, draws, result], and what it has
                \* done so far: maxes (the arguments of gen.next), js (what
                \* gen.next returned)
  sg,           \* the frame of secureGenerate: [pc, numOrOptions, length, sets,
                \* timestampStr, class, charset, guaranteedChars,
                \* lengthToGenerate, remainingLength, randomChars, i,
                \* finalPasswordArray, generated, result, error, errorType]
  tw,           \* a secureRandomNumber call fed the words the session delivers:
                \* [pc, k, randomValue, candidate, result, error]
  sz            \* the frame of sanitizeObject

sessionVars == <<buffer, index, unread>>
callVars == <<fn, gen, pc, args, min, max, range, ignoreSet, maxSafe,
              randomValue, candidate, result, error>>
vars == <<sessionVars, callVars, cmp, shf, sg, tw, sz>>

\* The sessions of the model: "g" and "h" are generators their caller created
\* with createSecureRandomGenerator() and keeps; "own" is the one a call
\* creates for itself when it is given none.
Sessions == {"g", "h", "own"}

\* createSecureRandomGenerator(): a zeroed buffer, the cursor at the end.
FreshBuffer == [k \in 0 .. (BUFFER_SIZE - 1) |-> 0]
FreshIndex == BUFFER_SIZE

\* ------------------------------------------------- the draw: preparation

\* Which overload was used: (min, max, ignore) or (max, ignore).
\* A resolution that reads the exclusion input from the third argument always.
ResolveThird(a, b, c) ==
  IF b.kind = "number"
    THEN [min |-> a.h, max |-> b.h, rawIgnore |-> c]
    ELSE [min |-> 0, max |-> a.h, rawIgnore |-> c]

Resolve(a, b, c) ==
  IF b.kind = "number"
    THEN [min |-> a.h, max |-> b.h, rawIgnore |-> c]
    ELSE [min |-> 0, max |-> a.h, rawIgnore |-> b]

\* Dedup with a plausible bug: every occurrence is kept.
DedupKeepsRepeats(s) == s

\* new Set(iterable): the members in first-insertion order.
RECURSIVE Dedup(_)
Dedup(s) ==
  IF s = << >> THEN << >>
  ELSE LET front == Dedup(SubSeq(s, 1, Len(s) - 1))
           last == s[Len(s)]
       IN  IF last \in SeqRange(front) THEN front ELSE Append(front, last)

\* The exclusion input as a Set: [typeError, defined, order].
NormalizeIgnore(rawIgnore) ==
  IF rawIgnore.kind \in {"undefined", "null"}
    THEN [typeError |-> FALSE, defined |-> FALSE, order |-> << >>]
  ELSE IF rawIgnore.kind = "Set"
    THEN [typeError |-> FALSE, defined |-> TRUE, order |-> rawIgnore.items]
  ELSE IF rawIgnore.kind # "string" /\ rawIgnore.kind \in {"Array", "iterable"}
    THEN [typeError |-> FALSE, defined |-> TRUE, order |-> Dedup(rawIgnore.items)]
  ELSE [typeError |-> TRUE, defined |-> FALSE, order |-> << >>]

\* The sanity loop over the Set from member k on, excludedInRange counted so
\* far: TRUE when it throws.
RECURSIVE ExcludesAll(_, _, _, _, _, _)
ExcludesAll(order, k, excludedInRange, mn, mx, rg) ==
  IF k > Len(order) THEN FALSE
  ELSE IF ~IsInteger(order[k])
    THEN ExcludesAll(order, k + 1, excludedInRange, mn, mx, rg)
  ELSE IF order[k] >= H(mn) /\ order[k] < H(mx)
    THEN IF excludedInRange + 1 >= rg THEN TRUE
         ELSE ExcludesAll(order, k + 1, excludedInRange + 1, mn, mx, rg)
  ELSE ExcludesAll(order, k + 1, excludedInRange, mn, mx, rg)

\* RangeTooLarge with a plausible bug: a range of exactly 2 ** 32 refused.
RangeTooLargeOffByOne(rg) == rg >= Word

\* The range check: one raw word cannot cover the range.
RangeTooLarge(rg) == rg > Word

\* maxSafe with a plausible bug: no word is redrawn for bias.
MaxSafeWhole(rg) == Word

\* maxSafe with a plausible bug: the remainder alone.
MaxSafeRemainder(rg) == Word % rg

\* The largest multiple of range that fits in the raw words.
MaxSafeOf(rg) == Word - (Word % rg)

NoIgnore == [defined |-> FALSE, set |-> {}]
Failed(msg) ==
  [error |-> msg, min |-> 0, max |-> 0, range |-> 0, ignoreSet |-> NoIgnore,
   maxSafe |-> 0]

\* Prepare with a plausible bug: the exclusion input is normalised before the
\* bounds are checked.
PrepareIgnoreFirst(a, b, c) ==
  LET r == Resolve(a, b, c)
      mn == IntOf(r.min)
      mx == IntOf(r.max)
      rg == NumSub(mx, mn)
      ig == NormalizeIgnore(r.rawIgnore)
  IN  IF ig.typeError THEN Failed(ERR_IGNORE_TYPE)
      ELSE IF ~IsInteger(r.min) \/ ~IsInteger(r.max) THEN Failed(ERR_INTEGERS)
      ELSE IF mx <= mn THEN Failed(ERR_ORDER)
      ELSE IF RangeTooLarge(rg) THEN Failed(ERR_TOO_LARGE)
      ELSE IF ig.defined /\ ExcludesAll(ig.order, 1, 0, mn, mx, rg)
        THEN Failed(ERR_EXHAUSTED)
      ELSE [error |-> "", min |-> mn, max |-> mx, range |-> rg,
            ignoreSet |-> [defined |-> ig.defined, set |-> SeqRange(ig.order)],
            maxSafe |-> MaxSafeOf(rg)]

\* A call up to its loop: the error it throws, or the locals it enters the
\* loop with.
Prepare(a, b, c) ==
  LET r == Resolve(a, b, c)
      mn == IntOf(r.min)
      mx == IntOf(r.max)
      rg == NumSub(mx, mn)
      ig == NormalizeIgnore(r.rawIgnore)
  IN  IF ~IsInteger(r.min) \/ ~IsInteger(r.max) THEN Failed(ERR_INTEGERS)
      ELSE IF mx <= mn THEN Failed(ERR_ORDER)
      ELSE IF RangeTooLarge(rg) THEN Failed(ERR_TOO_LARGE)
      ELSE IF ig.typeError THEN Failed(ERR_IGNORE_TYPE)
      ELSE IF ig.defined /\ ExcludesAll(ig.order, 1, 0, mn, mx, rg)
        THEN Failed(ERR_EXHAUSTED)
      ELSE [error |-> "", min |-> mn, max |-> mx, range |-> rg,
            ignoreSet |-> [defined |-> ig.defined, set |-> SeqRange(ig.order)],
            maxSafe |-> MaxSafeOf(rg)]

\* ------------------------------------------------------ the draw: the loop

CandidateOf(mn, rg, raw) == NumAdd(mn, raw % rg)

\* The loop condition: the word is redrawn.
Redraw(raw, cand, ms, ig) ==
  raw >= ms \/ (ig.defined /\ H(cand) \in ig.set)

\* A call starts: overload resolution, validation, maxSafe.
BeginDraw(s, a, b, c) ==
  LET p == Prepare(a, b, c)
  IN  /\ gen' = s
      /\ args' = <<a, b, c>>
      /\ min' = p.min /\ max' = p.max /\ range' = p.range
      /\ ignoreSet' = p.ignoreSet /\ maxSafe' = p.maxSafe
      /\ randomValue' = 0 /\ candidate' = 0 /\ result' = 0
      /\ error' = p.error
      /\ pc' = IF p.error = "" THEN "loop" ELSE "thrown"

\* The frame of a call that is over.
EndDraw ==
  /\ pc' = "idle"
  /\ args' = <<Undefined, Undefined, Undefined>>
  /\ min' = 0 /\ max' = 0 /\ range' = 0
  /\ ignoreSet' = NoIgnore /\ maxSafe' = 0
  /\ randomValue' = 0 /\ candidate' = 0 /\ result' = 0
  /\ error' = ""

\* One pass of the do-while body on word `raw`, then its condition.
LoopBody(raw) ==
  LET cand == CandidateOf(min, range, raw)
  IN  /\ randomValue' = raw
      /\ candidate' = cand
      /\ IF Redraw(raw, cand, maxSafe, ignoreSet)
           THEN pc' = "loop" /\ result' = result
           ELSE pc' = "returned" /\ result' = cand
      /\ UNCHANGED <<fn, gen, args, min, max, range, ignoreSet, maxSafe, error>>

\* index = 0 with a plausible bug: the cursor is left where it is.
RefilledIndexKept(i) == i

\* _refillBuffer: index = 0
RefilledIndex(i) == 0

\* index++ with a plausible bug: the cursor is not advanced.
IncrementedNot(i) == i

\* index++
Incremented(i) == i + 1

\* A refill test that a call which has thrown reaches as well.
RefillReachedOrThrown == pc \in {"loop", "thrown"}
\* The refill test is the first statement of the do-while body: a call reaches
\* it after its validation.
RefillReached == pc = "loop"

\* A refill test that fires one word early.
RefillDueEarly(i) == i >= BUFFER_SIZE - 1
\* if (index >= BUFFER_SIZE)
RefillDue(i) == i >= BUFFER_SIZE

\* crypto.getRandomValues(buffer) delivers BUFFER_SIZE words.
Delivered(u) == u + BUFFER_SIZE
\* buffer[index++] reads one word.
Consumed(u) == u - 1

\* if (index >= BUFFER_SIZE) _refillBuffer(): crypto.getRandomValues(buffer)
\* and index = 0.
NextRefill ==
  /\ RefillReached /\ fn = "next"
  /\ RefillDue(index[gen])
  /\ unread' = [unread EXCEPT ![gen] = Delivered(unread[gen])]
  /\ \E fresh \in [0 .. (BUFFER_SIZE - 1) -> Words] :
       buffer' = [buffer EXCEPT ![gen] = fresh]
  /\ index' = [index EXCEPT ![gen] = RefilledIndex(index[gen])]
  /\ UNCHANGED <<callVars, cmp, shf, sg, tw, sz>>

\* randomValue = buffer[index++] and the rest of the loop body.
Read ==
  /\ pc = "loop" /\ fn = "next"
  /\ ~RefillDue(index[gen])
  /\ index' = [index EXCEPT ![gen] = Incremented(index[gen])]
  /\ unread' = [unread EXCEPT ![gen] = Consumed(unread[gen])]
  /\ LoopBody(buffer[gen][index[gen]])
  /\ UNCHANGED buffer

\* The read of the next buffered word.
NextRead == Read /\ UNCHANGED <<cmp, shf, sg, tw, sz>>

\* secureRandomNumber: crypto.getRandomValues(randomBytes) and the read.
OneShotRead ==
  /\ pc = "loop" /\ fn = "secureRandomNumber"
  /\ \E randomBytes \in [0 .. 0 -> Words] : LoopBody(randomBytes[0])
  /\ UNCHANGED <<sessionVars, cmp, shf, sg, tw, sz>>

\* ------------------------- the one-shot draw on the words of a session

\* A call of secureRandomNumber whose entropy source delivers, word by word,
\* what the session's source delivers block by block: k counts the words of
\* the session's current block it has been given.
NoTwin ==
  [pc |-> "idle", k |-> BUFFER_SIZE, min |-> 0, max |-> 0, range |-> 0,
   ignoreSet |-> NoIgnore, maxSafe |-> 0, randomValue |-> 0, candidate |-> 0,
   result |-> 0, error |-> "", failedAt |-> -1]

\* secureRandomNumber(a, b, c) up to its loop.
TwinBegin(a, b, c) ==
  LET p == Prepare(a, b, c)
  IN  [NoTwin EXCEPT
         !.pc = IF p.error = "" THEN "loop" ELSE "thrown",
         !.k = tw.k,
         !.min = p.min, !.max = p.max, !.range = p.range,
         !.ignoreSet = p.ignoreSet, !.maxSafe = p.maxSafe,
         !.error = p.error]

\* One pass of its do-while on the next word of the block.
TwinRead(block) ==
  LET k == IF tw.k >= BUFFER_SIZE THEN 0 ELSE tw.k
      raw == block[k]
      cand == CandidateOf(tw.min, tw.range, raw)
  IN  [tw EXCEPT
         !.k = k + 1,
         !.randomValue = raw,
         !.candidate = cand,
         !.pc = IF Redraw(raw, cand, tw.maxSafe, tw.ignoreSet)
                  THEN "loop" ELSE "returned",
         !.result = IF Redraw(raw, cand, tw.maxSafe, tw.ignoreSet)
                      THEN tw.result ELSE cand]

\* ------------------------------------------------------- secureCompare

\* An operand: undefined, a string (its UTF-16 code units) or a Uint8Array
\* (its bytes).
UndefinedOperand == [kind |-> "undefined", data |-> << >>]
StringOperand(units) == [kind |-> "string", data |-> units]
BytesOperand(bytes) == [kind |-> "Uint8Array", data |-> bytes]

IsHighSurrogate(u) == u >= 55296 /\ u <= 56319
IsLowSurrogate(u) == u >= 56320 /\ u <= 57343

\* The UTF-8 bytes of one code point.
EncodeCodePoint(cp) ==
  IF cp < 128 THEN <<cp>>
  ELSE IF cp < 2048 THEN <<192 + (cp \div 64), 128 + (cp % 64)>>
  ELSE IF cp < 65536
    THEN <<224 + (cp \div 4096), 128 + ((cp \div 64) % 64), 128 + (cp % 64)>>
  ELSE <<240 + (cp \div 262144), 128 + ((cp \div 4096) % 64),
         128 + ((cp \div 64) % 64), 128 + (cp % 64)>>

\* textEncoder.encode: a surrogate pair is one code point, a lone surrogate
\* is replaced by U+FFFD.
RECURSIVE EncodeText(_)
EncodeText(units) ==
  IF units = << >> THEN << >>
  ELSE IF Len(units) >= 2 /\ IsHighSurrogate(units[1]) /\ IsLowSurrogate(units[2])
    THEN EncodeCodePoint(65536 + (units[1] - 55296) * 1024 + (units[2] - 56320))
           \o EncodeText(SubSeq(units, 3, Len(units)))
  ELSE IF IsHighSurrogate(units[1]) \/ IsLowSurrogate(units[1])
    THEN EncodeCodePoint(65533) \o EncodeText(Tail(units))
  ELSE EncodeCodePoint(units[1]) \o EncodeText(Tail(units))

\* _toUint8Array
ToUint8Array(input) ==
  IF input.kind = "string" THEN EncodeText(input.data) ELSE input.data

\* ToInt32, as a bit pattern: the operand of a bitwise operator.
ToInt32(n) == n % (2 ^ IntBits)

RECURSIVE BitXorBits(_, _)
BitXorBits(x, y) ==
  IF x = 0 /\ y = 0 THEN 0
  ELSE (((x % 2) + (y % 2)) % 2) + 2 * BitXorBits(x \div 2, y \div 2)

RECURSIVE BitOrBits(_, _)
BitOrBits(x, y) ==
  IF x = 0 /\ y = 0 THEN 0
  ELSE (IF x % 2 = 1 \/ y % 2 = 1 THEN 1 ELSE 0) + 2 * BitOrBits(x \div 2, y \div 2)

\* x ^ y and x | y
BitXor(x, y) == BitXorBits(ToInt32(x), ToInt32(y))
BitOr(x, y) == BitOrBits(ToInt32(x), ToInt32(y))

ERR_REFERENCE == "Cannot verify. Reference is undefined."

\* !reference || reference.length === 0
\* A check that lets an empty reference through.
ReferenceUndefined(reference) == reference.kind = "undefined"
\* !reference || reference.length === 0
ReferenceMissing(reference) ==
  reference.kind = "undefined" \/ Len(reference.data) = 0

\* isIncomingUndefined || a.length ^ b.length
InitialMismatch(isIncomingUndefined, la, lb) ==
  IF isIncomingUndefined # 0 THEN isIncomingUndefined ELSE BitXor(la, lb)

\* b[i] ?? 0 (i counted from 0)
ByteAt(b, i) == IF i < Len(b) THEN b[i + 1] ELSE 0

\* LoopContinues with a plausible bug: the loop stops at the first mismatch.
LoopContinuesUntilMismatch(i, a, b, mismatch) == i < Len(a) /\ mismatch = 0

\* for (const [i, element] of a.entries()): another entry is left.
LoopContinues(i, a, b, mismatch) == i < Len(a)

NoCompare ==
  [pc |-> "idle", reference |-> UndefinedOperand, incoming |-> UndefinedOperand,
   a |-> << >>, b |-> << >>, isIncomingUndefined |-> 0, mismatch |-> 0,
   i |-> 0, steps |-> 0, result |-> FALSE, error |-> ""]

\* The call up to the loop: the reference check, the conversions, mismatch.
CompareBegin(reference, incoming) ==
  /\ cmp.pc = "idle"
  /\ IF ReferenceMissing(reference)
       THEN cmp' = [NoCompare EXCEPT !.pc = "thrown", !.reference = reference,
                                     !.incoming = incoming,
                                     !.error = ERR_REFERENCE]
       ELSE LET a == ToUint8Array(reference)
                undef == IF incoming.kind = "undefined" THEN 1 ELSE 0
                b == IF incoming.kind = "undefined" THEN << >>
                     ELSE ToUint8Array(incoming)
            IN  cmp' = [NoCompare EXCEPT
                          !.pc = "loop", !.reference = reference,
                          !.incoming = incoming, !.a = a, !.b = b,
                          !.isIncomingUndefined = undef,
                          !.mismatch = InitialMismatch(undef, Len(a), Len(b))]
  /\ UNCHANGED <<sessionVars, callVars, shf, sg, tw, sz>>

\* One pass of the loop body.
CompareStep ==
  /\ cmp.pc = "loop"
  /\ LoopContinues(cmp.i, cmp.a, cmp.b, cmp.mismatch)
  /\ cmp' = [cmp EXCEPT
               !.mismatch = BitOr(cmp.mismatch,
                                  BitXor(cmp.a[cmp.i + 1], ByteAt(cmp.b, cmp.i))),
               !.i = cmp.i + 1,
               !.steps = cmp.steps + 1]
  /\ UNCHANGED <<sessionVars, callVars, shf, sg, tw, sz>>

\* The loop is over: return mismatch === 0.
CompareFinish ==
  /\ cmp.pc = "loop"
  /\ ~LoopContinues(cmp.i, cmp.a, cmp.b, cmp.mismatch)
  /\ cmp' = [cmp EXCEPT !.pc = "returned", !.result = (cmp.mismatch = 0)]
  /\ UNCHANGED <<sessionVars, callVars, shf, sg, tw, sz>>

\* What the passes of the loop for the entries lo .. hi - 1 of a OR into
\* mismatch: element ^ (b[i] ?? 0) of each. The entries are taken by halves
\* (| is associative and commutative), which keeps the evaluation shallow
\* for a long reference.
RECURSIVE CompareLoop(_, _, _, _)
CompareLoop(a, b, lo, hi) ==
  IF hi <= lo THEN 0
  ELSE IF hi = lo + 1 THEN BitXor(a[lo + 1], ByteAt(b, lo))
  ELSE LET mid == (lo + hi) \div 2
       IN  BitOr(CompareLoop(a, b, lo, mid), CompareLoop(a, b, mid, hi))

\* secureCompare(reference, incoming) as a function: "thrown", or the
\* boolean it returns.
SecureCompare(reference, incoming) ==
  IF ReferenceMissing(reference) THEN "thrown"
  ELSE LET a == ToUint8Array(reference)
           undef == IF incoming.kind = "undefined" THEN 1 ELSE 0
           b == IF incoming.kind = "undefined" THEN << >>
                ELSE ToUint8Array(incoming)
       IN  BitOr(InitialMismatch(undef, Len(a), Len(b)),
                 CompareLoop(a, b, 0, Len(a))) = 0

\* The call is over: its frame is gone.
CompareReturn ==
  /\ cmp.pc \in {"returned", "thrown"}
  /\ cmp' = NoCompare
  /\ UNCHANGED <<sessionVars, callVars, shf, sg, tw, sz>>

\* ------------------------------------------------------- secureShuffle

\* The array object the caller passes; `elements` are what it holds.
ArrayRef == "array"

\* [array[i], array[j]] = [array[j], array[i]] with a plausible bug: only
\* array[i] is written.
SwapOverwrites(elements, i, j) ==
  [elements EXCEPT ![i + 1] = elements[j + 1]]

\* [array[i], array[j]] = [array[j]!, array[i]!] (i, j counted from 0)
Swap(elements, i, j) ==
  [elements EXCEPT ![i + 1] = elements[j + 1], ![j + 1] = elements[i + 1]]

NoShuffle ==
  [pc |-> "idle", array |-> "", generator |-> "", gen |-> "", i |-> 0,
   elements |-> << >>, before |-> << >>, draws |-> 0, result |-> "",
   maxes |-> << >>, js |-> << >>]

\* A call that falls back on one session kept for all calls.
ShuffleSessionKept(generator) == IF generator = "undefined" THEN "g" ELSE generator
\* gen = generator ?? createSecureRandomGenerator()
ShuffleSession(generator) == IF generator = "undefined" THEN "own" ELSE generator

\* The call up to the loop: gen = generator ?? createSecureRandomGenerator(),
\* i = array.length - 1.
ShuffleBegin(elements, generator) ==
  /\ shf.pc = "idle" /\ pc = "idle" /\ fn = "next"
  /\ shf' = [NoShuffle EXCEPT
               !.pc = "loop", !.array = ArrayRef, !.generator = generator,
               !.gen = ShuffleSession(generator),
               !.i = Len(elements) - 1,
               !.elements = elements, !.before = elements]
  /\ IF generator = "undefined"
       THEN /\ buffer' = [buffer EXCEPT !["own"] = FreshBuffer]
            /\ index' = [index EXCEPT !["own"] = FreshIndex]
            /\ unread' = [unread EXCEPT !["own"] = 0]
       ELSE UNCHANGED sessionVars
  /\ UNCHANGED <<callVars, cmp, sg, tw, sz>>

\* A loop that also runs its body for i = 0.
ShuffleContinuesAtZero(i) == i >= 0
\* The loop condition: i > 0.
ShuffleContinues(i) == i > 0

\* A draw over the whole array at every pass.
DrawMaxWhole(i) == Len(shf.elements)
\* The argument of gen.next: i + 1.
DrawMax(i) == i + 1

\* i > 0: gen.next(i + 1) is called.
ShuffleDraw ==
  /\ shf.pc = "loop"
  /\ ShuffleContinues(shf.i)
  /\ BeginDraw(shf.gen, NumberArg(H(DrawMax(shf.i))), Undefined, Undefined)
  /\ shf' = [shf EXCEPT !.pc = "draw", !.draws = shf.draws + 1,
                        !.maxes = Append(shf.maxes, DrawMax(shf.i))]
  /\ UNCHANGED <<fn, sessionVars, cmp, sg, tw, sz>>

\* gen.next has returned j: the swap, then i--.
ShuffleSwap ==
  /\ shf.pc = "draw"
  /\ pc = "returned"
  /\ shf' = [shf EXCEPT !.pc = "loop",
                        !.elements = Swap(shf.elements, shf.i, result),
                        !.i = shf.i - 1,
                        !.js = Append(shf.js, result)]
  /\ EndDraw
  /\ UNCHANGED <<fn, gen, sessionVars, cmp, sg, tw, sz>>

\* The loop is over: return array.
ShuffleFinish ==
  /\ shf.pc = "loop"
  /\ ~ShuffleContinues(shf.i)
  /\ shf' = [shf EXCEPT !.pc = "returned", !.result = shf.array]
  /\ UNCHANGED <<sessionVars, callVars, cmp, sg, tw, sz>>

\* The call is over: its frame is gone, and with it the session it created.
ShuffleReturn ==
  /\ shf.pc = "returned"
  /\ shf' = NoShuffle
  /\ buffer' = [buffer EXCEPT !["own"] = FreshBuffer]
  /\ index' = [index EXCEPT !["own"] = FreshIndex]
  /\ unread' = [unread EXCEPT !["own"] = 0]
  /\ UNCHANGED <<callVars, cmp, sg, tw, sz>>

\* ------------------------------------------------------- secureGenerate

\* A string is the sequence of its characters. The default alphabets are the
\* first AlphabetLen characters of the source's.
Chars(string) == SubSeq(string, 1, AlphabetLen)
DEFAULT_UPPERCASE ==
  Chars(
    <<"A", "B", "C", "D", "E", "F", "G", "H", "I", "J", "K", "L", "M", "N",
      "O", "P", "Q", "R", "S", "T", "U", "V", "W", "X", "Y", "Z">>)
DEFAULT_LOWERCASE ==
  Chars(
    <<"a", "b", "c", "d", "e", "f", "g", "h", "i", "j", "k", "l", "m", "n",
      "o", "p", "q", "r", "s", "t", "u", "v", "w", "x", "y", "z">>)
DEFAULT_NUMBERS ==
  Chars(
    <<"0", "1", "2", "3", "4", "5", "6", "7", "8", "9">>)
DEFAULT_SPECIALS ==
  Chars(
    <<"!", "@", "#", "$", "%", "^", "&", "*", "(", ")", "_", "+", "{", "}",
      ":", "<", ">", "?", "|", "[", "]", ";", ",", ".", "/", "~", "-", "=">>)

ERR_LENGTH == "Password length must be at least 1."
ERR_NO_CHARSET == "Cannot generate string. No character types selected."
ERR_TIMESTAMP(n) ==
  "Password length must be greater than timestamp length (" \o ToString(n) \o ")."

\* The values of a class option: true, false, undefined (the option is not
\* given) or a string.
True == [kind |-> "true", chars |-> << >>]
False == [kind |-> "false", chars |-> << >>]
NotGiven == [kind |-> "undefined", chars |-> << >>]
Str(chars) == [kind |-> "string", chars |-> chars]

\* The timestamp option: undefined, true or a Date (its time value).
NoTimestamp == [kind |-> "undefined", time |-> 0]
TimestampNow == [kind |-> "true", time |-> 0]
TimestampDate(t) == [kind |-> "date", time |-> t]

\* The argument numOrOptions: undefined, a number (half units) or an object.
NoArgument ==
  [kind |-> "undefined", length |-> Undefined, uppercase |-> NotGiven,
   lowercase |-> NotGiven, numbers |-> NotGiven, specials |-> NotGiven,
   timestamp |-> NoTimestamp]
LengthArgument(h) == [NoArgument EXCEPT !.kind = "number", !.length = NumberArg(h)]
OptionsArgument(len, u, l, n, sp, ts) ==
  [kind |-> "options", length |-> len, uppercase |-> u, lowercase |-> l,
   numbers |-> n, specials |-> sp, timestamp |-> ts]

ClassNames == <<"uppercase", "lowercase", "numbers", "specials">>

DefaultSet(class) ==
  CASE class = "uppercase" -> DEFAULT_UPPERCASE
    [] class = "lowercase" -> DEFAULT_LOWERCASE
    [] class = "numbers" -> DEFAULT_NUMBERS
    [] class = "specials" -> DEFAULT_SPECIALS

\* x ?? true
OrTrue(x) == IF x.kind = "undefined" THEN True ELSE x

\* The options as the call resolves them: length (half units), the four class
\* options and the timestamp option.
ResolveOptions(numOrOptions) ==
  IF numOrOptions.kind = "undefined"
    THEN [length |-> H(DEFAULT_LENGTH), uppercase |-> True, lowercase |-> True,
          numbers |-> True, specials |-> True, timestamp |-> NoTimestamp]
  ELSE IF numOrOptions.kind = "number"
    THEN [length |-> numOrOptions.length.h, uppercase |-> True,
          lowercase |-> True, numbers |-> True, specials |-> True,
          timestamp |-> NoTimestamp]
  ELSE [length |-> IF numOrOptions.length.kind = "undefined"
                     THEN H(DEFAULT_LENGTH) ELSE numOrOptions.length.h,
        uppercase |-> OrTrue(numOrOptions.uppercase),
        lowercase |-> OrTrue(numOrOptions.lowercase),
        numbers |-> OrTrue(numOrOptions.numbers),
        specials |-> OrTrue(numOrOptions.specials),
        timestamp |-> numOrOptions.timestamp]

Base36Digits ==
  <<"0", "1", "2", "3", "4", "5", "6", "7", "8", "9", "a", "b", "c", "d", "e",
    "f", "g", "h", "i", "j", "k", "l", "m", "n", "o", "p", "q", "r", "s", "t",
    "u", "v", "w", "x", "y", "z">>

RECURSIVE Base36OfNat(_)
Base36OfNat(n) ==
  IF n < 36 THEN <<Base36Digits[n + 1]>>
  ELSE Base36OfNat(n \div 36) \o <<Base36Digits[(n % 36) + 1]>>

\* n.toString(36) of an integer n
ToBase36(n) == IF n < 0 THEN <<"-">> \o Base36OfNat(-n) ELSE Base36OfNat(n)

\* timestampStr: date.getTime().toString(36), `now` being what new Date() reads.
TimestampStr(timestamp, now) ==
  IF timestamp.kind = "undefined" THEN << >>
  ELSE ToBase36(IF timestamp.kind = "true" THEN now ELSE timestamp.time)

\* _shouldIncludeSet
ShouldIncludeSet(set) ==
  set.kind # "false"
    /\ (set.kind = "true" \/ (set.kind = "string" /\ Len(set.chars) > 0))

\* A builder that ignores the caller's alphabet.
UsedSetDefault(set, defaultSet) == defaultSet
\* _characterSetBuilder: used
UsedSet(set, defaultSet) == IF set.kind = "string" THEN set.chars ELSE defaultSet

\* The values random.next(n) returns for an integer 1 <= n <= 2^32: the
\* session `random` belongs to this call alone, and a draw with min = 0 and
\* such a range returns an integer of [0, n).
NextOf(n) == 0 .. (n - 1)

\* slice with a plausible bug: the end is ignored.
SliceAll(array, endH) == array

\* array.slice(0, end): end (half units, not negative) is truncated to an
\* integer and capped at the length.
Slice(array, endH) ==
  LET end == endH \div 2
  IN  SubSeq(array, 1, IF end < Len(array) THEN end ELSE Len(array))

\* A check that lets the length 0 through.
LengthNegative(length) == length < 0
\* length < 1 (half units)
LengthTooSmall(length) == length < H(1)

NoGenerate ==
  [pc |-> "idle", numOrOptions |-> NoArgument, length |-> 0,
   sets |-> [c \in {"uppercase", "lowercase", "numbers", "specials"} |-> NotGiven],
   timestampStr |-> << >>, class |-> 0, charset |-> << >>,
   guaranteedChars |-> << >>, lengthToGenerate |-> 0, remainingLength |-> 0,
   randomChars |-> << >>, i |-> 0, finalPasswordArray |-> << >>,
   generated |-> << >>, result |-> << >>, error |-> "", errorType |-> "",
   sessions |-> 0, draws |-> << >>]

\* const random = createSecureRandomGenerator(): one more session.
SessionsAfter(sessions) == sessions + 1
\* random.next(n) is called on the call's session: the draws so far, then n.
Drawn(draws, n) == Append(draws, n)

\* The call up to the session: the options, the timestamp, the two checks.
\* length, lengthToGenerate and remainingLength are in half units.
GenerateBegin(numOrOptions, now) ==
  LET o == ResolveOptions(numOrOptions)
      timestampStr == TimestampStr(o.timestamp, now)
      frame == [NoGenerate EXCEPT
                  !.numOrOptions = numOrOptions, !.length = o.length,
                  !.sets = [c \in DOMAIN NoGenerate.sets |-> o[c]],
                  !.timestampStr = timestampStr]
  IN  /\ sg.pc = "idle"
      /\ IF LengthTooSmall(o.length)
           THEN sg' = [frame EXCEPT !.pc = "thrown", !.error = ERR_LENGTH,
                                    !.errorType = "TypeError"]
         ELSE IF timestampStr # << >> /\ o.length <= H(Len(timestampStr))
           THEN sg' = [frame EXCEPT !.pc = "thrown",
                                    !.error = ERR_TIMESTAMP(Len(timestampStr)),
                                    !.errorType = "Error"]
         ELSE sg' = [frame EXCEPT !.pc = "classes", !.class = 1,
                                  !.sessions = SessionsAfter(frame.sessions)]
      /\ UNCHANGED <<sessionVars, callVars, cmp, shf, tw, sz>>

\* The alphabet of the class whose block is next.
UsedNow == UsedSet(sg.sets[ClassNames[sg.class]], DefaultSet(ClassNames[sg.class]))
\* The block of an included class, random.next(used.length) having returned j.
AfterClass(j) ==
  [sg EXCEPT !.charset = sg.charset \o UsedNow,
             !.guaranteedChars = Append(sg.guaranteedChars, UsedNow[j + 1]),
             !.draws = Drawn(sg.draws, Len(UsedNow)),
             !.class = sg.class + 1]
\* The block of a class that is not included.
ClassSkipped == [sg EXCEPT !.class = sg.class + 1]

\* The block of one class: included, it adds its alphabet to charset and one
\* character of it to guaranteedChars.
GenerateClass ==
  /\ sg.pc = "classes"
  /\ sg.class <= Len(ClassNames)
  /\ IF ShouldIncludeSet(sg.sets[ClassNames[sg.class]])
       THEN \E j \in NextOf(Len(UsedNow)) : sg' = AfterClass(j)
       ELSE sg' = ClassSkipped
  /\ UNCHANGED <<sessionVars, callVars, cmp, shf, tw, sz>>

\* After the four blocks: the charset check, lengthToGenerate, remainingLength.
GenerateLengths ==
  /\ sg.pc = "classes"
  /\ sg.class > Len(ClassNames)
  /\ IF sg.charset = << >>
       THEN sg' = [sg EXCEPT !.pc = "thrown", !.error = ERR_NO_CHARSET,
                             !.errorType = "Error"]
       ELSE LET lengthToGenerate == sg.length - H(Len(sg.timestampStr))
            IN  sg' = [sg EXCEPT
                         !.pc = "fill",
                         !.lengthToGenerate = lengthToGenerate,
                         !.remainingLength =
                           lengthToGenerate - H(Len(sg.guaranteedChars))]
  /\ UNCHANGED <<sessionVars, callVars, cmp, shf, tw, sz>>

\* for (let i = 0; i < remainingLength; i++): another character is drawn.
FillContinues(i, remainingLength) == remainingLength > 0 /\ H(i) < remainingLength

\* One pass of the filler loop, random.next(charset.length) having returned j.
AfterFill(j) ==
  [sg EXCEPT !.randomChars = Append(sg.randomChars, sg.charset[j + 1]),
             !.draws = Drawn(sg.draws, Len(sg.charset)),
             !.i = sg.i + 1]

\* One pass of the filler loop.
GenerateFill ==
  /\ sg.pc = "fill"
  /\ FillContinues(sg.i, sg.remainingLength)
  /\ \E j \in NextOf(Len(sg.charset)) : sg' = AfterFill(j)
  /\ UNCHANGED <<sessionVars, callVars, cmp, shf, tw, sz>>

\* secureShuffle([...guaranteedChars, ...randomChars], random) is called.
GenerateShuffleBegin ==
  /\ sg.pc = "fill"
  /\ ~FillContinues(sg.i, sg.remainingLength)
  /\ LET array == sg.guaranteedChars \o sg.randomChars
     IN  sg' = [sg EXCEPT !.pc = "shuffle", !.finalPasswordArray = array,
                          !.i = Len(array) - 1]
  /\ UNCHANGED <<sessionVars, callVars, cmp, shf, tw, sz>>

\* One pass of secureShuffle's loop, generator.next(i + 1) having returned j.
AfterShuffleStep(j) ==
  [sg EXCEPT !.finalPasswordArray = Swap(sg.finalPasswordArray, sg.i, j),
             !.draws = Drawn(sg.draws, sg.i + 1),
             !.i = sg.i - 1]

\* One pass of secureShuffle's loop.
GenerateShuffleStep ==
  /\ sg.pc = "shuffle"
  /\ sg.i > 0
  /\ \E j \in NextOf(sg.i + 1) : sg' = AfterShuffleStep(j)
  /\ UNCHANGED <<sessionVars, callVars, cmp, shf, tw, sz>>

\* secureShuffle has returned: the slice, the timestamp in front.
GenerateFinish ==
  /\ sg.pc = "shuffle"
  /\ ~(sg.i > 0)
  /\ LET generated == Slice(sg.finalPasswordArray, sg.lengthToGenerate)
     IN  sg' = [sg EXCEPT !.pc = "returned", !.generated = generated,
                          !.result = sg.timestampStr \o generated]
  /\ UNCHANGED <<sessionVars, callVars, cmp, shf, tw, sz>>

\* The call is over: its frame is gone.
GenerateReturn ==
  /\ sg.pc \in {"returned", "thrown"}
  /\ sg' = NoGenerate
  /\ UNCHANGED <<sessionVars, callVars, cmp, shf, tw, sz>>

\* ------------------------------------------------------ sanitizeObject

DANGEROUS_KEYS == <<"__proto__", "prototype", "constructor">>

\* The heap: the objects 1 .. MaxNodes. An object is an array or not; it is
\* extensible and its properties configurable ("no"), sealed or frozen; `own`
\* is the dangerous keys it has as own properties, `undef` those of them whose
\* value has been overwritten with undefined, `hidden` those made
\* non-enumerable; `e`, `p` and `h` are the values of an enumerable property
\* that is element 0 if the object is an array, of an enumerable property that
\* is no array index, and of a non-enumerable property.
\* A value is a reference to an object of the heap, undefined, null or a
\* number; Absent stands for a property that the object does not have.
Nodes == 1 .. MaxNodes
Ref(n) == [kind |-> "object", ref |-> n]
\* A reference to a function: typeof gives "function" for it.
FunctionRef(n) == [kind |-> "function", ref |-> n]
Absent == [kind |-> "absent", ref |-> 0]
UndefinedValue == [kind |-> "undefined", ref |-> 0]
NullValue == [kind |-> "null", ref |-> 0]
NumberValue == [kind |-> "number", ref |-> 0]
\* current && typeof current === "object"
IsObject(value) == value.kind = "object"

Configurable(node, key) == node.locked = "no"
Writable(node, key) == node.locked # "frozen"
\* Object.prototype.hasOwnProperty.call(current, key)
HasOwn(node, key) == key \in node.own

\* delete current[key] under try/catch: the property goes if it is
\* configurable, else the TypeError of strict code is caught.
TryDelete(node, key) ==
  IF HasOwn(node, key) /\ Configurable(node, key)
    THEN [node EXCEPT !.own = @ \ {key}, !.undef = @ \ {key},
                      !.hidden = @ \ {key}]
    ELSE node

\* try { current[key] = undefined; delete current[key] }: the assignment
\* throws on a property that is not writable, and the delete is skipped.
TryOverwrite(node, key) ==
  IF Writable(node, key)
    THEN TryDelete([node EXCEPT !.undef = @ \cup {key}], key)
    ELSE node

\* try { Object.defineProperty(current, key, {value: undefined,
\* configurable: true, enumerable: false, writable: true}); delete }:
\* defineProperty throws on a property that is not configurable.
TryRedefine(node, key) ==
  IF Configurable(node, key)
    THEN TryDelete([node EXCEPT !.undef = @ \cup {key},
                                !.hidden = @ \cup {key}], key)
    ELSE node

\* The body of for (const key of DANGEROUS_KEYS): the three strategies, each
\* tried while the key is still an own property.
StripKey(node, key) ==
  LET n1 == IF HasOwn(node, key) THEN TryDelete(node, key) ELSE node
      n2 == IF HasOwn(node, key) /\ HasOwn(n1, key)
              THEN TryOverwrite(n1, key) ELSE n1
      n3 == IF HasOwn(node, key) /\ HasOwn(n2, key)
              THEN TryRedefine(n2, key) ELSE n2
  IN  n3

\* The three unconditional deletes, from the k-th on: a delete of an own
\* property that is not configurable throws a TypeError (strict code), and
\* nothing catches it.
RECURSIVE FinalDeletes(_, _)
FinalDeletes(node, k) ==
  IF k > Len(DANGEROUS_KEYS) THEN [node |-> node, threw |-> FALSE]
  ELSE IF HasOwn(node, DANGEROUS_KEYS[k]) /\ ~Configurable(node, DANGEROUS_KEYS[k])
    THEN [node |-> node, threw |-> TRUE]
  ELSE FinalDeletes(TryDelete(node, DANGEROUS_KEYS[k]), k + 1)

Present(values) == SelectSeq(values, LAMBDA v : v # Absent)

\* The values visit goes on to: the elements of an array, else the values
\* of Object.keys(current).
ChildValues(node) ==
  IF node.isArray THEN Present(<<node.e>>) ELSE Present(<<node.e, node.p>>)

\* A frame of visit: its argument, where it is, the key of the for loop, the
\* values its traversal has yet to visit.
VisitFrame(value) == [current |-> value, pc |-> "enter", key |-> 1, values |-> << >>]

NoSanitize ==
  [pc |-> "idle", obj |-> UndefinedValue, heap |-> << >>, before |-> << >>,
   seen |-> {}, stack |-> << >>, visits |-> 0, order |-> << >>,
   result |-> UndefinedValue,
   error |-> ""]

Top == sz.stack[Len(sz.stack)]
Popped == SubSeq(sz.stack, 1, Len(sz.stack) - 1)
Retop(frame) == [sz.stack EXCEPT ![Len(sz.stack)] = frame]

\* sanitizeObject(obj): the fast path, or seen = new WeakSet() and visit(obj).
SanitizeBegin(obj, heap) ==
  /\ sz.pc = "idle"
  /\ IF ~IsObject(obj)
       THEN sz' = [NoSanitize EXCEPT !.pc = "returned", !.obj = obj,
                                     !.heap = heap, !.before = heap,
                                     !.result = obj]
       ELSE sz' = [NoSanitize EXCEPT !.pc = "visit", !.obj = obj,
                                     !.heap = heap, !.before = heap,
                                     !.stack = <<VisitFrame(obj)>>]
  /\ UNCHANGED <<sessionVars, callVars, cmp, shf, sg, tw>>

\* A walk that remembers nothing.
SeenNothing(seen, value) == FALSE
\* seen.has(current)
SeenHas(seen, value) == value.ref \in seen

\* The two early returns of visit, else seen.add(current).
VisitEnter ==
  /\ sz.pc = "visit" /\ sz.stack # << >>
  /\ Top.pc = "enter"
  /\ IF ~IsObject(Top.current) \/ SeenHas(sz.seen, Top.current)
       THEN sz' = [sz EXCEPT !.stack = Popped]
       ELSE sz' = [sz EXCEPT !.seen = @ \cup {Top.current.ref},
                             !.visits = @ + 1,
                             !.order = Append(@, Top.current.ref),
                             !.stack = Retop([Top EXCEPT !.pc = "keys"])]
  /\ UNCHANGED <<sessionVars, callVars, cmp, shf, sg, tw>>

\* One pass of for (const key of DANGEROUS_KEYS).
VisitStrip ==
  /\ sz.pc = "visit" /\ sz.stack # << >>
  /\ Top.pc = "keys"
  /\ sz' = [sz EXCEPT
               !.heap[Top.current.ref] = StripKey(@, DANGEROUS_KEYS[Top.key]),
               !.stack = Retop(IF Top.key < Len(DANGEROUS_KEYS)
                                 THEN [Top EXCEPT !.key = @ + 1]
                                 ELSE [Top EXCEPT !.pc = "final"])]
  /\ UNCHANGED <<sessionVars, callVars, cmp, shf, sg, tw>>

\* The unconditional deletes: they throw out of sanitizeObject, or the
\* traversal begins.
VisitFinalDelete ==
  /\ sz.pc = "visit" /\ sz.stack # << >>
  /\ Top.pc = "final"
  /\ LET d == FinalDeletes(sz.heap[Top.current.ref], 1)
     IN  IF d.threw
           THEN sz' = [sz EXCEPT !.pc = "thrown", !.error = "TypeError",
                                 !.heap[Top.current.ref] = d.node,
                                 !.stack = << >>]
           ELSE sz' = [sz EXCEPT
                         !.heap[Top.current.ref] = d.node,
                         !.stack = Retop([Top EXCEPT
                                            !.pc = "kids",
                                            !.values = ChildValues(d.node)])]
  /\ UNCHANGED <<sessionVars, callVars, cmp, shf, sg, tw>>

\* visit(value) is called for the next value of the traversal.
VisitChild ==
  /\ sz.pc = "visit" /\ sz.stack # << >>
  /\ Top.pc = "kids" /\ Top.values # << >>
  /\ sz' = [sz EXCEPT
               !.stack = Append(Retop([Top EXCEPT !.values = Tail(@)]),
                                VisitFrame(Head(Top.values)))]
  /\ UNCHANGED <<sessionVars, callVars, cmp, shf, sg, tw>>

\* The traversal is over: visit returns.
VisitReturn ==
  /\ sz.pc = "visit" /\ sz.stack # << >>
  /\ Top.pc = "kids" /\ Top.values = << >>
  /\ sz' = [sz EXCEPT !.stack = Popped]
  /\ UNCHANGED <<sessionVars, callVars, cmp, shf, sg, tw>>

\* visit(obj, seen) has returned: return obj.
SanitizeFinish ==
  /\ sz.pc = "visit" /\ sz.stack = << >>
  /\ sz' = [sz EXCEPT !.pc = "returned", !.result = sz.obj]
  /\ UNCHANGED <<sessionVars, callVars, cmp, shf, sg, tw>>

\* The call is over: its frame is gone.
SanitizeReturn ==
  /\ sz.pc \in {"returned", "thrown"}
  /\ sz' = NoSanitize
  /\ UNCHANGED <<sessionVars, callVars, cmp, shf, sg, tw>>

\* ------------------------------------------------- the calls of the model

RECURSIVE SortedSeq(_)
SortedSeq(S) ==
  IF S = {} THEN << >>
  ELSE LET m == CHOOSE x \in S : \A y \in S : x <= y
       IN  <<m>> \o SortedSeq(S \ {m})

\* The integers of S in ascending order, in half units.
HSeq(S) == [k \in 1 .. Cardinality(S) |-> H(SortedSeq(S)[k])]

\* The lower bounds drawn from: a negative one, 0, and the first magnitude at
\* which not every integer is a number.
Mins == {-1, 0, MAX_EXACT}
\* max - min of the calls: negative, 0, every valid range, one too large.
Spans == (-1) .. (Word + 1)

\* A non-integer number: min + 0.5 where that exists, else 0.5.
NonInteger(mn) == IF Abs(mn) < MAX_EXACT \div 2 THEN H(mn) + 1 ELSE 1

\* The numbers of [mn, mx) that are integers.
InRange(mn, mx) == {v \in mn .. (mx - 1) : IsNumber(v)}

\* S listed twice between a value below the range, a non-integer and max.
Padded(S, mn, mx) ==
  <<H(mn - 1), NonInteger(mn)>> \o HSeq(S) \o HSeq(S) \o <<H(mx)>>

\* The exclusion inputs tried with the valid bounds (mn, mx).
ExcludeInputs(mn, mx) ==
  {Undefined, Null, StringArg, ObjectArg}
    \cup {SetArg(HSeq(InRange(mn, mx) \ {v})) : v \in InRange(mn, mx)}
    \cup {ArrayArg(HSeq(InRange(mn, mx))), SetArg(HSeq(InRange(mn, mx)))}
    \cup {ArrayArg(Padded(InRange(mn, mx) \ {mn}, mn, mx))}
    \cup {IterableArg(Padded(InRange(mn, mx), mn, mx))}

\* The exclusion inputs tried with invalid bounds.
OtherIgnores == {Undefined, StringArg, SetArg(<<H(0)>>)}

IgnoresFor(mn, d) ==
  IF d >= 1 /\ d <= Word THEN ExcludeInputs(mn, mn + d) ELSE OtherIgnores

\* f(min, max, ignore) and f(min, max).
BoundsCalls ==
  UNION {UNION {{<<NumberArg(H(mn)), NumberArg(H(mn + d)), ex>> :
                    ex \in IgnoresFor(mn, d)} :
                d \in {e \in Spans : IsNumber(mn + e)}} : mn \in Mins}

\* f(max, ignore) and f(max); a third argument after a non-number.
MaxCalls ==
  UNION {{<<NumberArg(H(mx)), ex, Undefined>> : ex \in IgnoresFor(0, mx)} :
         mx \in Spans}
    \cup {<<NumberArg(H(2)), ex, SetArg(<<H(0), H(1)>>)>> :
            ex \in {Undefined, Null, SetArg(<<H(0)>>)}}

\* Calls with a bound that is not an integer.
NonIntegerCalls ==
  {<<NumberArg(1), ex, Undefined>> : ex \in {Undefined, StringArg}}
    \cup {<<NumberArg(1), NumberArg(H(2)), ex>> : ex \in {Undefined, StringArg}}
    \cup {<<NumberArg(H(0)), NumberArg(3), ex>> : ex \in {Undefined, StringArg}}
    \cup {<<NumberArg(1), NumberArg(H(0)), ex>> : ex \in {Undefined, StringArg}}
    \cup {<<NumberArg(1), NumberArg(H(Word + 2)), StringArg>>}

DrawCalls == BoundsCalls \cup MaxCalls \cup NonIntegerCalls

\* ------------------------------------------------------- the draw alone

\* The caller calls generator.next or secureRandomNumber.
Call ==
  /\ pc = "idle"
  /\ \E call \in DrawCalls : BeginDraw("g", call[1], call[2], call[3])
  /\ UNCHANGED <<fn, sessionVars, cmp, shf, sg, tw, sz>>

\* The call is over (its value returned or its error thrown): its frame is
\* gone and the caller is free to call again.
Return ==
  /\ pc \in {"returned", "thrown"}
  /\ EndDraw
  /\ UNCHANGED <<fn, gen, sessionVars, cmp, shf, sg, tw, sz>>

InitCall ==
  /\ gen = "g"
  /\ pc = "idle"
  /\ args = <<Undefined, Undefined, Undefined>>
  /\ min = 0 /\ max = 0 /\ range = 0
  /\ ignoreSet = NoIgnore /\ maxSafe = 0
  /\ randomValue = 0 /\ candidate = 0 /\ result = 0
  /\ error = ""

InitSessions ==
  /\ buffer = [s \in Sessions |-> FreshBuffer]
  /\ index = [s \in Sessions |-> FreshIndex]
  /\ unread = [s \in Sessions |-> 0]

InitDraw ==
  /\ fn \in {"next", "secureRandomNumber"}
  /\ InitSessions
  /\ InitCall
  /\ cmp = NoCompare
  /\ shf = NoShuffle
  /\ sg = NoGenerate
  /\ tw = NoTwin
  /\ sz = NoSanitize

NextDraw == Call \/ NextRefill \/ NextRead \/ OneShotRead \/ Return

SpecDraw == InitDraw /\ [][NextDraw]_vars

\* ------------------------------------- the session and the one-shot draw

\* The same call is made to generator.next and to secureRandomNumber.
PairCall ==
  /\ pc = "idle" /\ tw.pc = "idle"
  /\ \E call \in DrawCalls :
       /\ BeginDraw("g", call[1], call[2], call[3])
       /\ tw' = TwinBegin(call[1], call[2], call[3])
  /\ UNCHANGED <<fn, sessionVars, cmp, shf, sg, sz>>

\* The session reads a word; secureRandomNumber, if in its loop, is given
\* the next word of the same block.
PairRead ==
  /\ Read
  /\ tw' = IF tw.pc = "loop" THEN TwinRead(buffer[gen]) ELSE tw
  /\ UNCHANGED <<cmp, shf, sg, sz>>

\* Both calls are over.
PairReturn ==
  /\ pc \in {"returned", "thrown"}
  /\ tw.pc \in {"returned", "thrown"}
  /\ EndDraw
  /\ tw' = [NoTwin EXCEPT !.k = tw.k]
  /\ UNCHANGED <<fn, gen, sessionVars, cmp, shf, sg, sz>>

InitPair ==
  /\ fn = "next"
  /\ InitSessions
  /\ InitCall
  /\ cmp = NoCompare
  /\ shf = NoShuffle
  /\ sg = NoGenerate
  /\ tw = NoTwin
  /\ sz = NoSanitize

NextPair == PairCall \/ NextRefill \/ PairRead \/ PairReturn

SpecPair == InitPair /\ [][NextPair]_vars

\* ------------------------------- the session and the calls that fail

\* The caller calls generator.next. Beside the session runs a reference draw
\* that is given the words of the session's blocks in their order and the
\* calls that pass validation only: a call that fails is never made to it.
\* failedAt is the session's cursor at the last call that failed.
SkipCall ==
  /\ pc = "idle" /\ tw.pc = "idle"
  /\ \E call \in DrawCalls :
       /\ BeginDraw("g", call[1], call[2], call[3])
       /\ tw' = IF Prepare(call[1], call[2], call[3]).error = ""
                  THEN [TwinBegin(call[1], call[2], call[3])
                          EXCEPT !.failedAt = tw.failedAt]
                  ELSE [tw EXCEPT !.failedAt = index["g"]]
  /\ UNCHANGED <<fn, sessionVars, cmp, shf, sg, sz>>

\* The call is over, and so is the reference draw if the call was made to it.
SkipReturn ==
  /\ pc \in {"returned", "thrown"}
  /\ tw.pc \in {"returned", "idle"}
  /\ EndDraw
  /\ tw' = [NoTwin EXCEPT !.k = tw.k, !.failedAt = tw.failedAt]
  /\ UNCHANGED <<fn, gen, sessionVars, cmp, shf, sg, sz>>

NextSkip == SkipCall \/ NextRefill \/ PairRead \/ SkipReturn

SpecSkip == InitPair /\ [][NextSkip]_vars

\* --------------------------------------------------- secureCompare alone

\* The code units of the texts: "A", "é" (two bytes), a high and a low
\* surrogate (together one code point of four bytes, alone U+FFFD).
TextUnits == {65, 233, 55357, 56395}
\* The bytes of the byte sequences: 0, "A" and the two bytes of "é".
ByteValues == {0, 65, 195, 169}

SeqsUpTo(S, n) == UNION {[1 .. k -> S] : k \in 0 .. n}

\* `bytes` followed by 2^IntBits zero bytes.
Lengthened(bytes) == bytes \o [k \in 1 .. (2 ^ IntBits) |-> 0]

References ==
  {UndefinedOperand}
    \cup {StringOperand(u) : u \in SeqsUpTo(TextUnits, MaxTextLen)}
    \cup {BytesOperand(y) : y \in SeqsUpTo(ByteValues, MaxBytesLen)}

\* `bytes` followed by 2^IntBits bytes, the last of them not zero.
LengthenedNonZero(bytes) ==
  bytes \o [k \in 1 .. (2 ^ IntBits) |-> IF k = 2 ^ IntBits THEN 65 ELSE 0]

Incomings(reference) ==
  {UndefinedOperand}
    \cup {BytesOperand(LengthenedNonZero(ToUint8Array(reference)))}
    \cup {StringOperand(u) : u \in SeqsUpTo(TextUnits, MaxTextLen)}
    \cup {BytesOperand(y) : y \in SeqsUpTo(ByteValues, MaxBytesLen + 1)}
    \cup {BytesOperand(Lengthened(ToUint8Array(reference)))}

CompareCall ==
  /\ cmp.pc = "idle"
  /\ \E reference \in References :
       \E incoming \in Incomings(reference) : CompareBegin(reference, incoming)

InitCompare ==
  /\ fn = "next"
  /\ InitSessions
  /\ InitCall
  /\ cmp = NoCompare
  /\ shf = NoShuffle
  /\ sg = NoGenerate
  /\ tw = NoTwin
  /\ sz = NoSanitize

NextCompare == CompareCall \/ CompareStep \/ CompareFinish \/ CompareReturn

SpecCompare == InitCompare /\ [][NextCompare]_vars

\* --------------------------------------------------- secureShuffle alone

Elements == {"x", "y", "z"}

\* An Array holds at most 2^32 - 1 elements.
Arrays == UNION {[1 .. n -> Elements] : n \in 0 .. (Word - 1)}

\* The generator argument: a session of the caller's, or none.
Generators == {"g", "undefined"}

ShuffleCall ==
  /\ shf.pc = "idle"
  /\ \E elements \in Arrays :
       \E generator \in Generators : ShuffleBegin(elements, generator)

InitShuffle ==
  /\ fn = "next"
  /\ InitSessions
  /\ InitCall
  /\ cmp = NoCompare
  /\ shf = NoShuffle
  /\ sg = NoGenerate
  /\ tw = NoTwin
  /\ sz = NoSanitize

NextShuffle ==
  \/ ShuffleCall
  \/ ShuffleDraw
  \/ NextRefill
  \/ NextRead
  \/ ShuffleSwap
  \/ ShuffleFinish
  \/ ShuffleReturn

SpecShuffle == InitShuffle /\ [][NextShuffle]_vars

\* -------------------------------------------------- secureGenerate alone

\* Lengths passed as a number: 0, 1, 2, 3, 4 and 4.5 (half units).
NumberLengths == {H(0), H(1), H(2), H(3), H(4), H(4) + 1}

\* Time values: "0" and "-1", "z" and "10" in base 36.
DateTimes == {0, -1}
ClockTimes == {35, 36}

Timestamps == {NoTimestamp, TimestampNow} \cup {TimestampDate(t) : t \in DateTimes}

\* Options objects: each class left out, switched off or (two of them) given
\* its own alphabet, sharing a character with another class's or repeating a
\* character; an empty one.
\* And the objects that give no class and no length, or a length below 1.
OptionsCalls ==
  {OptionsArgument(len, u, l, n, sp, ts) :
     len \in {NumberArg(H(2)), NumberArg(H(3))},
     u \in {NotGiven, False, Str(<<"a", "X">>), Str(<<"a", "X", "a">>)},
     l \in {True, False},
     n \in {NotGiven, False, Str(<<"1", "3">>), Str(<< >>)},
     sp \in {NotGiven, False},
     ts \in Timestamps}
    \cup {OptionsArgument(Undefined, NotGiven, NotGiven, NotGiven, NotGiven, ts) :
            ts \in Timestamps}
    \cup {OptionsArgument(NumberArg(h), NotGiven, NotGiven, NotGiven, NotGiven, ts) :
            h \in {H(0), H(-1)}, ts \in Timestamps}

GenerateCalls ==
  {NoArgument} \cup {LengthArgument(h) : h \in NumberLengths} \cup OptionsCalls

GenerateCall ==
  /\ sg.pc = "idle"
  /\ \E numOrOptions \in GenerateCalls :
       \E now \in ClockTimes : GenerateBegin(numOrOptions, now)

InitGenerate ==
  /\ fn = "next"
  /\ InitSessions
  /\ InitCall
  /\ cmp = NoCompare
  /\ shf = NoShuffle
  /\ sg = NoGenerate
  /\ tw = NoTwin
  /\ sz = NoSanitize

\* The objects given to sanitizeObject: (array or not) x (no dangerous key;
\* constructor; all three; constructor on a frozen object; prototype on a
\* sealed one).
OwnKeys ==
  {[locked |-> "no", own |-> {}],
   [locked |-> "no", own |-> {"constructor"}],
   [locked |-> "no", own |-> {"__proto__", "prototype", "constructor"}],
   [locked |-> "frozen", own |-> {"constructor"}],
   [locked |-> "sealed", own |-> {"prototype"}]}

\* The properties that hold values: none; a chain through e; a cycle; two
\* children; an enumerable and a hidden child; a shared child; an object
\* that holds itself, a number and, further down, a hidden child.
Node(e, p, h) == [e |-> e, p |-> p, h |-> h]
Leaf == Node(Absent, Absent, Absent)
Shapes ==
  {[n \in Nodes |-> Leaf],
   [n \in Nodes |-> IF n = 1 THEN Node(Ref(2), Absent, Absent)
                    ELSE IF n = 2 THEN Node(Ref(3), Absent, Absent) ELSE Leaf],
   [n \in Nodes |-> IF n = 1 THEN Node(Ref(2), Absent, Absent)
                    ELSE IF n = 2 THEN Node(Ref(1), Absent, Absent) ELSE Leaf],
   [n \in Nodes |-> IF n = 1 THEN Node(Ref(2), Ref(3), Absent) ELSE Leaf],
   [n \in Nodes |-> IF n = 1 THEN Node(Ref(2), Absent, Ref(3)) ELSE Leaf],
   [n \in Nodes |-> IF n = 1 THEN Node(Ref(2), Ref(2), Absent)
                    ELSE IF n = 2 THEN Node(NullValue, Ref(3), Absent) ELSE Leaf],
   [n \in Nodes |-> IF n = 1 THEN Node(Ref(1), Ref(2), Absent)
                    ELSE IF n = 2 THEN Node(NumberValue, Absent, Ref(3)) ELSE Leaf]}

\* What an object is: a plain object or an array with any of OwnKeys; a Date
\* with an own constructor, a Map, a Set with an own prototype, a function.
Looks ==
  {[class |-> c, locked |-> k.locked, own |-> k.own] :
     c \in {"Object", "Array"}, k \in OwnKeys}
    \cup {[class |-> "Date", locked |-> "no", own |-> {"constructor"}],
          [class |-> "Map", locked |-> "no", own |-> {}],
          [class |-> "Set", locked |-> "no", own |-> {"prototype"}],
          [class |-> "Function", locked |-> "no", own |-> {"prototype"}]}

\* The value that refers to object n.
ValueOf(n, looks) == IF looks[n].class = "Function" THEN FunctionRef(n) ELSE Ref(n)
Linked(value, looks) ==
  IF value.kind = "object" THEN ValueOf(value.ref, looks) ELSE value

Heaps ==
  {[n \in Nodes |->
      [class |-> looks[n].class, isArray |-> looks[n].class = "Array",
       locked |-> looks[n].locked, own |-> looks[n].own,
       undef |-> {}, hidden |-> {},
       e |-> Linked(shape[n].e, looks), p |-> Linked(shape[n].p, looks),
       h |-> Linked(shape[n].h, looks)]] :
     looks \in [Nodes -> Looks], shape \in Shapes}

\* sanitizeObject is called on the first object of a heap, or on a value that
\* is no object.
SanitizeCall ==
  /\ sz.pc = "idle"
  /\ \E heap \in Heaps :
       \E obj \in {IF heap[1].class = "Function" THEN FunctionRef(1) ELSE Ref(1),
                    UndefinedValue, NullValue, NumberValue} :
         SanitizeBegin(obj, heap)

InitSanitize ==
  /\ fn = "next"
  /\ InitSessions
  /\ InitCall
  /\ cmp = NoCompare
  /\ shf = NoShuffle
  /\ sg = NoGenerate
  /\ tw = NoTwin
  /\ sz = NoSanitize

NextSanitize ==
  \/ SanitizeCall
  \/ VisitEnter
  \/ VisitStrip
  \/ VisitFinalDelete
  \/ VisitChild
  \/ VisitReturn
  \/ SanitizeFinish
  \/ SanitizeReturn

SpecSanitize == InitSanitize /\ [][NextSanitize]_vars

\* The call runs to its end: the code is synchronous, nothing suspends it.
SanitizeRuns ==
  \/ VisitEnter
  \/ VisitStrip
  \/ VisitFinalDelete
  \/ VisitChild
  \/ VisitReturn
  \/ SanitizeFinish
SpecSanitizeFair == SpecSanitize /\ WF_vars(SanitizeRuns)

NextGenerate ==
  \/ GenerateCall
  \/ GenerateClass
  \/ GenerateLengths
  \/ GenerateFill
  \/ GenerateShuffleBegin
  \/ GenerateShuffleStep
  \/ GenerateFinish
  \/ GenerateReturn

SpecGenerate == InitGenerate /\ [][NextGenerate]_vars

\* ------------------------------------- the sessions under every caller

\* The calls of next on the caller's session: next(3), next(1, 3, Set [1])
\* and next(0), which fails.
ShareCalls ==
  {<<NumberArg(H(3)), Undefined, Undefined>>,
   <<NumberArg(H(1)), NumberArg(H(3)), SetArg(<<H(1)>>)>>,
   <<NumberArg(H(0)), Undefined, Undefined>>}

ShareArrays == {<<"x", "y">>, <<"x", "y", "z">>}

\* Options whose cumulative alphabet has at most 2^32 characters, so that
\* random.next(charset.length) is a valid draw.
ShareOptions ==
  {OptionsArgument(NumberArg(H(len)), Str(<<"a", "X">>), False, n, False,
                   NoTimestamp) :
     len \in {2, 3}, n \in {False, Str(<<"1", "3">>)}}

\* generator.next is called by the caller.
ShareCall ==
  /\ pc = "idle" /\ shf.pc = "idle" /\ sg.pc = "idle"
  /\ \E call \in ShareCalls : BeginDraw("g", call[1], call[2], call[3])
  /\ UNCHANGED <<fn, sessionVars, cmp, shf, sg, tw, sz>>

\* It returns to the caller.
ShareReturn ==
  /\ shf.pc = "idle" /\ sg.pc = "idle"
  /\ Return

\* secureShuffle is called with the caller's session or with none.
ShareShuffleCall ==
  /\ sg.pc = "idle"
  /\ \E elements \in ShareArrays :
       \E generator \in Generators : ShuffleBegin(elements, generator)

\* secureGenerate is called; the session it creates is "own".
ShareGenerateCall ==
  /\ pc = "idle" /\ shf.pc = "idle"
  /\ \E numOrOptions \in ShareOptions :
       \E now \in ClockTimes : GenerateBegin(numOrOptions, now)

\* The block of a class that is not included.
ShareGenerateSkip ==
  /\ sg.pc = "classes"
  /\ sg.class <= Len(ClassNames)
  /\ ~ShouldIncludeSet(sg.sets[ClassNames[sg.class]])
  /\ GenerateClass

\* The n of the random.next(n) that secureGenerate is about to call or has
\* called, 0 if it is at no draw.
DrawDue ==
  IF sg.pc = "classes" /\ sg.class <= Len(ClassNames)
    THEN IF ShouldIncludeSet(sg.sets[ClassNames[sg.class]])
           THEN Len(UsedNow) ELSE 0
  ELSE IF sg.pc = "fill" /\ FillContinues(sg.i, sg.remainingLength)
    THEN Len(sg.charset)
  ELSE IF sg.pc = "shuffle" /\ sg.i > 0 THEN sg.i + 1
  ELSE 0

\* secureGenerate, _characterSetBuilder or the shuffle calls random.next(n).
ShareGenerateDraw ==
  /\ pc = "idle"
  /\ DrawDue > 0
  /\ BeginDraw("own", NumberArg(H(DrawDue)), Undefined, Undefined)
  /\ UNCHANGED <<fn, sessionVars, cmp, shf, sg, tw, sz>>

\* random.next(n) has returned: the statement that called it goes on.
ShareGenerateTake ==
  /\ pc = "returned"
  /\ DrawDue > 0
  /\ sg' = IF sg.pc = "classes" THEN AfterClass(result)
           ELSE IF sg.pc = "fill" THEN AfterFill(result)
           ELSE AfterShuffleStep(result)
  /\ EndDraw
  /\ UNCHANGED <<fn, gen, sessionVars, cmp, shf, tw, sz>>

\* secureGenerate is over: its frame is gone, and with it its session.
ShareGenerateReturn ==
  /\ sg.pc \in {"returned", "thrown"}
  /\ sg' = NoGenerate
  /\ buffer' = [buffer EXCEPT !["own"] = FreshBuffer]
  /\ index' = [index EXCEPT !["own"] = FreshIndex]
  /\ unread' = [unread EXCEPT !["own"] = 0]
  /\ UNCHANGED <<callVars, cmp, shf, tw, sz>>

NextShare ==
  \/ ShareCall
  \/ ShareReturn
  \/ ShareShuffleCall
  \/ ShuffleDraw
  \/ ShuffleSwap
  \/ ShuffleFinish
  \/ ShuffleReturn
  \/ ShareGenerateCall
  \/ ShareGenerateSkip
  \/ ShareGenerateDraw
  \/ ShareGenerateTake
  \/ GenerateLengths
  \/ GenerateShuffleBegin
  \/ GenerateFinish
  \/ ShareGenerateReturn
  \/ NextRefill
  \/ NextRead

SpecShare == InitShuffle /\ [][NextShare]_vars

\* ------------------------------------------ two sessions of one caller

\* next(3) and next(0), which fails.
TwoCalls ==
  {<<NumberArg(H(3)), Undefined, Undefined>>,
   <<NumberArg(H(0)), Undefined, Undefined>>}

\* secureShuffle(["x", "y", "z"], g) and secureShuffle(["x", "y"]).
TwoShuffles ==
  {[elements |-> <<"x", "y", "z">>, generator |-> "g"],
   [elements |-> <<"x", "y">>, generator |-> "undefined"]}

\* next is called on one of the caller's two sessions.
TwoCall ==
  /\ pc = "idle" /\ shf.pc = "idle"
  /\ \E s \in {"g", "h"} :
       \E call \in TwoCalls : BeginDraw(s, call[1], call[2], call[3])
  /\ UNCHANGED <<fn, sessionVars, cmp, shf, sg, tw, sz>>

\* secureShuffle is called while the caller keeps both sessions.
TwoShuffleCall ==
  \E c \in TwoShuffles : ShuffleBegin(c.elements, c.generator)

NextTwo ==
  \/ TwoCall
  \/ ShareReturn
  \/ TwoShuffleCall
  \/ ShuffleDraw
  \/ ShuffleSwap
  \/ ShuffleFinish
  \/ ShuffleReturn
  \/ NextRefill
  \/ NextRead

SpecTwo == InitShuffle /\ [][NextTwo]_vars

\* ------------------------------------------------ the draw: what is claimed

\* The request of the current call as its overload resolves it.
Request == Resolve(args[1], args[2], args[3])
\* The members of the exclusion input of the current call (half units).
Excluded == SeqRange(Request.rawIgnore.items)
\* A call is in its loop or over.
Called == pc \in {"loop", "returned", "thrown"}
\* The bounds of the current call are integers with min < max <= min + Word.
ValidBounds ==
  /\ IsInteger(Request.min) /\ IsInteger(Request.max)
  /\ Request.max > Request.min
  /\ Request.max - Request.min <= H(Word)
\* The raw words that end the loop of the current call.
Accepted == {raw \in Words :
               ~Redraw(raw, CandidateOf(min, range, raw), maxSafe, ignoreSet)}

\* C1: a draw that returns, returns an integer v with min <= v < max that is
\* no member of the exclusion input (so the one value left when all others
\* are excluded).
C1_ResultInRangeNotExcluded ==
  pc = "returned" =>
    /\ Request.min <= H(result) /\ H(result) < Request.max
    /\ H(result) \notin Excluded

\* C1 where every integer between the bounds is a number (|min|, |max| <=
\* 2^53 in the source): there the draw keeps its contract.
C1_ExactBounds ==
  (pc = "returned" /\ Abs(min) <= MAX_EXACT /\ Abs(max) <= MAX_EXACT) =>
    /\ Request.min <= H(result) /\ H(result) < Request.max
    /\ H(result) \notin Excluded

\* C2: maxSafe is a multiple of the range, and every value of [min, max) is
\* the candidate of exactly maxSafe / range of the words below maxSafe, and,
\* when not excluded, of as many accepted words.
C2_EqualPreimages ==
  pc = "loop" =>
    /\ maxSafe % range = 0
    /\ \A v \in min .. (max - 1) :
         /\ Cardinality({raw \in Words : raw < maxSafe
                           /\ CandidateOf(min, range, raw) = v})
              = maxSafe \div range
         /\ H(v) \notin Excluded =>
              Cardinality({raw \in Accepted : CandidateOf(min, range, raw) = v})
                = maxSafe \div range

\* C2 where every integer between the bounds is a number.
C2_ExactBounds ==
  (pc = "loop" /\ Abs(min) <= MAX_EXACT /\ Abs(max) <= MAX_EXACT) =>
    /\ maxSafe % range = 0
    /\ \A v \in min .. (max - 1) :
         /\ Cardinality({raw \in Words : raw < maxSafe
                           /\ CandidateOf(min, range, raw) = v})
              = maxSafe \div range
         /\ H(v) \notin Excluded =>
              Cardinality({raw \in Accepted : CandidateOf(min, range, raw) = v})
                = maxSafe \div range

\* C8: once validation has passed, some raw word ends the loop.
C8_SomeWordAccepted == pc = "loop" => Accepted # {}

\* C8 where every integer between the bounds is a number.
C8_ExactBounds ==
  (pc = "loop" /\ Abs(min) <= MAX_EXACT /\ Abs(max) <= MAX_EXACT) =>
    Accepted # {}

\* C9: with valid bounds, a draw throws the exhausted-range error exactly
\* when the distinct integer members of the exclusion input inside
\* [min, max) number at least max - min.
C9_ExhaustedIff ==
  (Called /\ ValidBounds) =>
    (error = ERR_EXHAUSTED <=>
       H(Cardinality({h \in Excluded : IsInteger(h) /\ Request.min <= h
                                         /\ h < Request.max}))
         >= Request.max - Request.min)

\* C9's case: an exclusion input with more members than the range has
\* values (repeats, non-integers, values outside) that leaves one value.
C9_Witness ==
  /\ pc = "returned"
  /\ Request.rawIgnore.kind = "Array"
  /\ Len(Request.rawIgnore.items) > range
  /\ \E h \in Excluded : ~IsInteger(h)
  /\ \E h \in Excluded : h >= Request.max

\* C10: the bounds accepted are exactly the integers min < max with
\* max - min <= 2^32; others throw the integer, order or range error; a range
\* of exactly 2^32 rejects no raw word for bias.
C10_BoundsAccepted ==
  Called =>
    /\ error = ERR_INTEGERS <=>
         (~IsInteger(Request.min) \/ ~IsInteger(Request.max))
    /\ error = ERR_ORDER <=>
         (IsInteger(Request.min) /\ IsInteger(Request.max)
            /\ Request.max <= Request.min)
    /\ error = ERR_TOO_LARGE <=>
         (IsInteger(Request.min) /\ IsInteger(Request.max)
            /\ Request.max - Request.min > H(Word))
    /\ error \in {ERR_INTEGERS, ERR_ORDER, ERR_TOO_LARGE} <=> ~ValidBounds
    /\ (pc = "loop" /\ Request.max - Request.min = H(Word)) =>
         \A raw \in Words : raw < maxSafe

\* C10's case: a draw over a range of exactly 2^32 has returned.
C10_Witness ==
  /\ pc = "returned"
  /\ Request.max - Request.min = H(Word)
  /\ randomValue = Word - 1

NonIntegerBounds == ~IsInteger(Request.min) \/ ~IsInteger(Request.max)
OrderViolated == Request.max <= Request.min
RangeAboveWord == Request.max - Request.min > H(Word)
\* The exclusion input is a string or is not iterable.
InvalidExclusionType == Request.rawIgnore.kind \in {"string", "object"}
\* The integer members of the exclusion input inside [min, max) are as many
\* as the range has values.
RangeExhausted ==
  H(Cardinality({h \in Excluded : IsInteger(h) /\ Request.min <= h
                                    /\ h < Request.max}))
    >= Request.max - Request.min

\* The error of the first precondition violated, in the order of C26.
FirstViolation ==
  IF NonIntegerBounds THEN ERR_INTEGERS
  ELSE IF OrderViolated THEN ERR_ORDER
  ELSE IF RangeAboveWord THEN ERR_TOO_LARGE
  ELSE IF InvalidExclusionType THEN ERR_IGNORE_TYPE
  ELSE IF RangeExhausted THEN ERR_EXHAUSTED
  ELSE ""

\* C26: the error of a draw is that of the first precondition violated in
\* the order non-integer bounds, max <= min, range > 2^32, invalid exclusion
\* type, exhausted range, in next and in secureRandomNumber alike; with
\* invalid bounds the error does not depend on the exclusion input.
C26_FirstViolationReported ==
  Called =>
    /\ error = FirstViolation
    /\ pc = "thrown" <=> FirstViolation # ""

\* C26's case: non-integer bounds in the wrong order with a string as the
\* exclusion input, in one-shot mode.
C26_Witness ==
  /\ pc = "thrown"
  /\ fn = "secureRandomNumber"
  /\ NonIntegerBounds /\ OrderViolated /\ InvalidExclusionType

\* The raw words that the loop of the current call redraws.
Rejected == Words \ Accepted
\* Those among them that are redrawn for bias: raw >= maxSafe.
BiasTail == {raw \in Words : raw >= maxSafe}
\* The current call excludes nothing.
NothingExcluded == ~ignoreSet.defined \/ ignoreSet.set = {}

\* C23: for every valid request, fewer than half of the raw words cause a
\* redraw.
C23_RejectedBelowHalf ==
  pc = "loop" => 2 * Cardinality(Rejected) < Word

\* C23 amended: fewer than half of the raw words are redrawn for bias, and
\* they are the only ones redrawn when the request excludes nothing.
C23_BiasTailBelowHalf ==
  pc = "loop" =>
    /\ 2 * Cardinality(BiasTail) < Word
    /\ NothingExcluded => Rejected = BiasTail

\* C23's case: a request that excludes nothing has redrawn a word.
C23_Witness ==
  /\ pc = "loop"
  /\ NothingExcluded
  /\ randomValue >= maxSafe
  /\ randomValue \in Rejected

\* ------------------------------------------- the session: what is claimed

\* A step refills session s: a new block arrives or the cursor goes back.
Refills(s) == buffer'[s] # buffer[s] \/ index'[s] < index[s]
\* A step reads a word of session s: the cursor goes forward.
Reads(s) == index'[s] > index[s]

\* C12: a session starts with its cursor at the capacity; the cursor stays in
\* 0 .. capacity; a refill happens only with the cursor at the capacity and
\* puts it at 0; a read takes the word under the cursor, below the capacity,
\* and moves the cursor by one (so the first draw refills before it reads).
C12_Cursor ==
  /\ \A s \in Sessions : index[s] = BUFFER_SIZE
  /\ [](\A s \in Sessions : index[s] \in 0 .. BUFFER_SIZE)
  /\ [][\A s \in Sessions :
          /\ Refills(s) => (index[s] = BUFFER_SIZE /\ index'[s] = 0)
          /\ Reads(s) =>
               /\ index[s] < BUFFER_SIZE
               /\ index'[s] = index[s] + 1
               /\ buffer'[s] = buffer[s]
               /\ randomValue' = buffer[s][index[s]]]_vars

\* C12's case: a session just refilled, its draw about to read the first
\* word of a block that is not the one it was created with.
C12_Witness ==
  /\ pc = "loop"
  /\ index[gen] = 0
  /\ buffer[gen] # FreshBuffer

\* A step fetches a block for session s.
Fetches(s) == index'[s] < index[s] \/ unread'[s] > unread[s]
\* A step of a running draw moves the cursor of session s forward.
ReadsWord(s) == pc = "loop" /\ Reads(s)
\* A call that created session s is over and s is gone: in its place is the
\* session the next such call creates.
Discarded(s) ==
  /\ s = "own" /\ pc = "idle"
  /\ buffer'[s] = FreshBuffer /\ index'[s] = FreshIndex /\ unread'[s] = 0

\* C29: whoever calls, a session's unread words are those from its cursor to
\* the end of its block; a read is made by the session's running draw, takes
\* the first of them and moves the cursor past it, whether the loop accepts
\* the word or rejects it; a block is fetched only when no unread word
\* remains, so once for every BUFFER_SIZE words read.
C29_WordsOnceInOrder ==
  /\ [](\A s \in Sessions : unread[s] = BUFFER_SIZE - index[s])
  /\ [][\A s \in Sessions :
          /\ Fetches(s) =>
               /\ unread[s] = 0
               /\ unread'[s] = BUFFER_SIZE
               /\ index'[s] = 0
          /\ (buffer'[s] # buffer[s] \/ index'[s] # index[s]
                \/ unread'[s] # unread[s]) =>
               (Fetches(s) \/ ReadsWord(s) \/ Discarded(s))
          /\ ReadsWord(s) =>
               /\ s = gen
               /\ index[s] = BUFFER_SIZE - unread[s]
               /\ index'[s] = index[s] + 1
               /\ unread'[s] = unread[s] - 1
               /\ buffer'[s] = buffer[s]
               /\ randomValue' = buffer[s][index[s]]]_vars

\* C29's case: the shuffle of secureGenerate, after the draws of the classes
\* and of the filler on the same session, is about to read the first word of
\* a block fetched for it.
C29_Witness ==
  /\ sg.pc = "shuffle"
  /\ pc = "loop"
  /\ Len(sg.draws) >= 3
  /\ index["own"] = 0
  /\ unread["own"] = BUFFER_SIZE

\* A draw of secureShuffle on the caller's session has rejected a word and is
\* about to read the one after it.
C29_RejectedInShuffle ==
  /\ shf.pc = "draw"
  /\ shf.gen = "g"
  /\ pc = "loop"
  /\ index["g"] = 1
  /\ randomValue >= maxSafe
  /\ randomValue = buffer["g"][0]

\* Session s is left as it is by a step.
Untouched(s) == buffer'[s] = buffer[s] /\ index'[s] = index[s]
\* secureShuffle is running, or starting, without a generator argument.
ShufflingAlone(frame) == frame.pc # "idle" /\ frame.generator = "undefined"

\* C30: a step of a draw touches no session but the draw's own, and the value
\* a draw returns is computed from the word before the cursor of its own
\* block; secureShuffle without a generator starts on a fresh session of its
\* own and, while it runs, the caller's sessions stay as they are; with a
\* generator it draws on that session, whose cursor each of its draws moves.
C30_SessionsApart ==
  /\ [][\A s \in Sessions : (pc = "loop" /\ s # gen) => Untouched(s)]_vars
  /\ [](pc = "returned" =>
         result = CandidateOf(min, range, buffer[gen][index[gen] - 1]))
  /\ [][(ShufflingAlone(shf) \/ ShufflingAlone(shf')) =>
          (Untouched("g") /\ Untouched("h"))]_vars
  /\ [][(shf.pc = "idle" /\ ShufflingAlone(shf')) =>
          /\ shf'.gen = "own"
          /\ buffer'["own"] = FreshBuffer
          /\ index'["own"] = FreshIndex]_vars
  /\ [](shf.pc = "draw" => gen = shf.gen)
  /\ [](shf.pc # "idle" =>
         shf.gen = IF shf.generator = "undefined" THEN "own" ELSE shf.generator)
  /\ [][(shf.pc = "draw" /\ pc = "loop" /\ pc' = "returned") =>
          index'[shf.gen] = index[shf.gen] + 1]_vars

\* C30's case: secureShuffle without a generator has drawn on its own
\* session while the caller's two sessions, both used before, are inside
\* different blocks.
C30_Witness ==
  /\ shf.pc = "draw" /\ shf.generator = "undefined"
  /\ pc = "returned"
  /\ index["own"] = 1
  /\ index["g"] = 1 /\ index["h"] = 1
  /\ buffer["g"] # buffer["h"]
  /\ buffer["own"] # buffer["g"]

\* secureShuffle with the caller's session has drawn on it while the other
\* session of the caller is inside a block.
C30_SharedAdvanced ==
  /\ shf.pc = "draw" /\ shf.generator = "g"
  /\ pc = "returned"
  /\ shf.draws = 2
  /\ index["h"] = 1
  /\ index["own"] = FreshIndex

\* ------------------------- the session and the one-shot: what is claimed

C11_ThrownTogether ==
  /\ pc = "thrown" /\ tw.pc = "thrown"
  /\ error = ERR_EXHAUSTED

\* C28: a step of a call that fails validation leaves the blocks and the
\* cursors as they are, so no block is fetched for it; and the calls that
\* pass read the words, and return the values, of a run of the same words in
\* which the failed calls were never made.
C28_FailedDrawKeepsSession ==
  /\ [][(pc = "thrown" \/ pc' = "thrown") => UNCHANGED <<buffer, index>>]_vars
  /\ [](index["g"] % BUFFER_SIZE = tw.k % BUFFER_SIZE)
  /\ [](pc \in {"loop", "returned"} =>
         /\ tw.pc = pc
         /\ randomValue = tw.randomValue
         /\ candidate = tw.candidate
         /\ result = tw.result)

\* C28's case: a call failed with the cursor inside a block, and the next
\* call has returned a value other than min drawn from the word under it.
C28_Witness ==
  /\ pc = "returned"
  /\ tw.failedAt = 1
  /\ index["g"] = 2
  /\ randomValue = buffer["g"][1]
  /\ result # min

\* A call has thrown with the cursor at the end of the block: the refill it
\* leaves to the next call is due.
C28_ThrownAtBlockEnd ==
  /\ pc = "thrown"
  /\ index["g"] = BUFFER_SIZE
  /\ buffer["g"] # FreshBuffer

\* ----------------------------------------- secureCompare: what is claimed

\* The byte sequence of an operand of the current comparison.
BytesOf(operand) == ToUint8Array(operand)
Compared == cmp.pc \in {"returned", "thrown"}

\* What the current call made of its arguments.
Frame ==
  [error |-> error, min |-> min, max |-> max, range |-> range,
   ignoreSet |-> ignoreSet, maxSafe |-> maxSafe]

\* C17: f(max) and f(max, ignore) are f(0, max) and f(0, max, ignore): when
\* the second argument is no number the call is that of min = 0, max = the
\* first argument and the second argument as the exclusion input, whatever
\* the third argument; when it is a number it is max and the first is min.
C17_OverloadResolution ==
  Called =>
    /\ args[2].kind # "number" =>
         /\ Frame = Prepare(NumberArg(H(0)), args[1], args[2])
         /\ pc # "thrown" => (min = 0 /\ H(max) = args[1].h)
    /\ args[2].kind = "number" =>
         /\ Frame = Prepare(args[1], args[2], args[3])
         /\ pc # "thrown" => (H(min) = args[1].h /\ H(max) = args[2].h)

\* C17's case: f(max, ignore, third) has returned a value that the third
\* argument lists.
C17_Witness ==
  /\ pc = "returned"
  /\ args[2].kind = "Set"
  /\ args[3].kind = "Set"
  /\ H(result) \in SeqRange(args[3].items)

\* C3: with a non-empty reference the comparison does not throw and returns
\* true exactly when incoming is present and its bytes are the reference's
\* (same length, equal at every index).
C3_TrueIffSameBytes ==
  (Compared /\ ~ReferenceMissing(cmp.reference)) =>
    /\ cmp.pc = "returned"
    /\ cmp.result <=>
         (cmp.incoming.kind # "undefined"
            /\ BytesOf(cmp.incoming) = BytesOf(cmp.reference))

\* C3 where both lengths are below 2^32, so that ToInt32 keeps them.
C3_Int32Lengths ==
  (Compared /\ ~ReferenceMissing(cmp.reference)
     /\ Len(BytesOf(cmp.incoming)) < 2 ^ IntBits) =>
    /\ cmp.pc = "returned"
    /\ cmp.result <=>
         (cmp.incoming.kind # "undefined"
            /\ BytesOf(cmp.incoming) = BytesOf(cmp.reference))

\* C4: the loop body runs once per byte of the reference, whatever incoming
\* is and whatever the bytes are.
C4_StepsAreReferenceLength ==
  cmp.pc = "returned" => cmp.steps = Len(BytesOf(cmp.reference))

\* C4's case: a comparison whose incoming differs from the reference at the
\* first byte has returned, the reference being several bytes long.
C4_Witness ==
  /\ cmp.pc = "returned"
  /\ cmp.steps >= 2
  /\ cmp.incoming.kind # "undefined"
  /\ Len(cmp.b) >= 1
  /\ cmp.b[1] # cmp.a[1]

\* ----------------------------------------- secureShuffle: what is claimed

\* How many times x occurs in s.
Count(s, x) == Cardinality({k \in 1 .. Len(s) : s[k] = x})
SameMultiset(s, t) ==
  /\ Len(s) = Len(t)
  /\ \A x \in Elements : Count(s, x) = Count(t, x)

\* C7: secureShuffle returns the array it was given, and that array holds
\* the multiset of elements it held at the call.
C7_SameArraySameMultiset ==
  shf.pc = "returned" =>
    /\ shf.result = shf.array
    /\ SameMultiset(shf.elements, shf.before)

\* The multiset is kept through the whole loop, not only at the return.
C7_MultisetKeptThroughout ==
  shf.pc # "idle" => SameMultiset(shf.elements, shf.before)

\* C7's case: a shuffle of an array with a repeated element that moved
\* elements.
C7_Witness ==
  /\ shf.pc = "returned"
  /\ Len(shf.before) = Word - 1
  /\ \E x \in Elements : Count(shf.before, x) = 2
  /\ shf.elements # shf.before
  /\ shf.draws = Word - 2

\* The reference of the current call is undefined, "" or a zero-length
\* byte sequence.
EmptyOrAbsent ==
  \/ cmp.reference.kind = "undefined"
  \/ cmp.reference.data = << >>

\* C18: with an empty or absent reference the call throws the reference
\* error whatever incoming is, and it does so as its first step: nothing has
\* been encoded (a and b are empty) and no byte compared.
C18_EmptyReferenceThrows ==
  /\ []((cmp.pc # "idle" /\ EmptyOrAbsent) =>
          /\ cmp.pc = "thrown"
          /\ cmp.error = ERR_REFERENCE
          /\ cmp.a = << >> /\ cmp.b = << >>
          /\ cmp.steps = 0 /\ cmp.i = 0)
  /\ [][cmp'.pc = "thrown" => cmp.pc = "idle"]_vars
  /\ [](cmp.pc = "thrown" => EmptyOrAbsent)

\* C18's case: a zero-length byte sequence as reference, a text as incoming.
C18_Witness ==
  /\ cmp.pc = "thrown"
  /\ cmp.reference.kind = "Uint8Array"
  /\ cmp.incoming.kind = "string"
  /\ cmp.incoming.data # << >>

\* Both operands of the current call are non-empty.
BothNonEmpty ==
  /\ cmp.reference.kind # "undefined" /\ cmp.reference.data # << >>
  /\ cmp.incoming.kind # "undefined" /\ cmp.incoming.data # << >>

\* The operand as bytes, whatever it was given as.
AsBytes(operand) == BytesOperand(BytesOf(operand))

\* C19: for two non-empty operands, each text or bytes, the call returns
\* what the call with the operands exchanged returns, and what the calls on
\* the operands' byte encodings return; an operand compares equal to its own
\* byte encoding in either position.
C19_Symmetric ==
  (cmp.pc = "returned" /\ BothNonEmpty) =>
    /\ cmp.result = SecureCompare(cmp.reference, cmp.incoming)
    /\ cmp.result = SecureCompare(cmp.incoming, cmp.reference)
    /\ cmp.result = SecureCompare(AsBytes(cmp.reference), cmp.incoming)
    /\ cmp.result = SecureCompare(cmp.reference, AsBytes(cmp.incoming))
    /\ SecureCompare(cmp.reference, AsBytes(cmp.reference)) = TRUE
    /\ SecureCompare(AsBytes(cmp.reference), cmp.reference) = TRUE

\* C19 where both lengths are below 2^32, so that ToInt32 keeps them.
C19_Int32Lengths ==
  (cmp.pc = "returned" /\ BothNonEmpty
     /\ Len(BytesOf(cmp.incoming)) < 2 ^ IntBits) =>
    /\ cmp.result = SecureCompare(cmp.reference, cmp.incoming)
    /\ cmp.result = SecureCompare(cmp.incoming, cmp.reference)
    /\ cmp.result = SecureCompare(AsBytes(cmp.reference), cmp.incoming)
    /\ cmp.result = SecureCompare(cmp.reference, AsBytes(cmp.incoming))
    /\ SecureCompare(cmp.reference, AsBytes(cmp.reference)) = TRUE
    /\ SecureCompare(AsBytes(cmp.reference), cmp.reference) = TRUE

\* A text has been compared with its own byte encoding, of several bytes.
C19_TextAgainstItsBytes ==
  /\ cmp.pc = "returned"
  /\ cmp.reference.kind = "string"
  /\ cmp.incoming.kind = "Uint8Array"
  /\ cmp.incoming.data = BytesOf(cmp.reference)
  /\ Len(cmp.incoming.data) > Len(cmp.reference.data)

\* The loop of secureShuffle on given draw results: pass m has i = n - m.
RECURSIVE ShuffleWith(_, _, _)
ShuffleWith(elements, js, m) ==
  IF m > Len(js) THEN elements
  ELSE ShuffleWith(Swap(elements, Len(elements) - m, js[m]), js, m + 1)

\* The draw sequences of an array of n elements: j in [0, i + 1) for
\* i = n - 1 down to 1.
DrawSeqs(n) ==
  IF n <= 1 THEN {<< >>}
  ELSE {js \in [1 .. (n - 1) -> 0 .. (n - 1)] :
          \A m \in 1 .. (n - 1) : js[m] <= n - m}

Distinct(s) == \A k, l \in 1 .. Len(s) : k # l => s[k] # s[l]
\* The orders of the elements of s.
OrdersOf(s) ==
  {t \in [1 .. Len(s) -> SeqRange(s)] : SameMultiset(t, s)}

\* C13: for an array of distinct elements the result is what the draw
\* results make of it, no other draw sequence gives the same order, and every
\* order of the elements is that of some draw sequence.
C13_Bijection ==
  (shf.pc = "returned" /\ Distinct(shf.before)) =>
    LET n == Len(shf.before)
    IN  /\ shf.js \in DrawSeqs(n)
        /\ shf.elements = ShuffleWith(shf.before, shf.js, 1)
        /\ \A js \in DrawSeqs(n) :
             ShuffleWith(shf.before, js, 1) = shf.elements => js = shf.js
        /\ \A t \in OrdersOf(shf.before) :
             \E js \in DrawSeqs(n) : ShuffleWith(shf.before, js, 1) = t

\* C13's case: three distinct elements returned in reverse order.
C13_Witness ==
  /\ shf.pc = "returned"
  /\ Distinct(shf.before)
  /\ Len(shf.before) = 3
  /\ \A k \in 1 .. Len(shf.before) :
       shf.elements[k] = shf.before[Len(shf.before) + 1 - k]

\* n - 1 down to 1, plus one: the arguments of the draws of n elements.
RECURSIVE MaxesOf(_)
MaxesOf(n) == IF n <= 1 THEN << >> ELSE <<n>> \o MaxesOf(n - 1)

\* C14: no draw for n <= 1 and n - 1 draws for n >= 2, over [0, i + 1) for
\* i = n - 1 down to 1 in that order; after a draw the next step of the call
\* is the swap of positions i and j; positions above i are not written again.
C14_DrawsAndSwaps ==
  /\ [](shf.pc = "returned" =>
         /\ shf.draws = (IF Len(shf.before) <= 1 THEN 0 ELSE Len(shf.before) - 1)
         /\ shf.maxes = MaxesOf(Len(shf.before))
         /\ Len(shf.js) = shf.draws)
  /\ [](shf.pc = "draw" =>
         /\ args = <<NumberArg(H(shf.i + 1)), Undefined, Undefined>>
         /\ (pc = "returned" => (result >= 0 /\ result <= shf.i)))
  /\ [][(shf.pc = "draw" /\ shf'.pc # "draw") =>
          /\ shf'.pc = "loop"
          /\ shf'.elements = Swap(shf.elements, shf.i, result)
          /\ shf'.i = shf.i - 1]_vars
  /\ [][(shf.pc \in {"loop", "draw"} /\ shf'.pc # "idle") =>
          \A p \in 1 .. Len(shf.elements) :
            (\/ p - 1 > shf.i
             \/ (shf.pc = "loop" /\ shf'.pc = "draw")
             \/ shf'.pc = "returned") =>
              shf'.elements[p] = shf.elements[p]]_vars

\* C14's case: a shuffle of three elements has returned after two draws, and
\* one of one element after none.
C14_Witness ==
  /\ shf.pc = "returned"
  /\ Len(shf.before) = 3
  /\ shf.maxes = <<3, 2>>
  /\ shf.js = <<0, 1>>

\* ---------------------------------------- secureGenerate: what is claimed

Classes == {ClassNames[k] : k \in 1 .. Len(ClassNames)}
Generated == sg.pc \in {"returned", "thrown"}

\* The class option as the caller gave it.
GivenSet(c) ==
  IF sg.numOrOptions.kind = "options" THEN sg.numOrOptions[c] ELSE NotGiven

\* A class is enabled unless it is switched off or given an empty alphabet;
\* its alphabet is the custom string if one was given, else the default.
Enabled(c) ==
  GivenSet(c).kind \in {"undefined", "true"}
    \/ (GivenSet(c).kind = "string" /\ GivenSet(c).chars # << >>)
Alphabet(c) ==
  IF GivenSet(c).kind = "string" THEN GivenSet(c).chars ELSE DefaultSet(c)
EnabledClasses == {c \in Classes : Enabled(c)}

TimestampEnabled == sg.numOrOptions.timestamp.kind # "undefined"
TimestampLength == Len(sg.timestampStr)

\* C5: for an integer length >= 1, at least one enabled class and, with the
\* timestamp enabled, a length above the timestamp's, secureGenerate returns
\* exactly `length` characters: the timestamp, then length - timestampLength
\* generated characters.
C5_ExactLength ==
  (/\ Generated
   /\ IsInteger(sg.length) /\ sg.length >= H(1)
   /\ EnabledClasses # {}
   /\ TimestampEnabled => sg.length > H(TimestampLength)) =>
    /\ sg.pc = "returned"
    /\ Len(sg.result) = IntOf(sg.length)
    /\ sg.result = sg.timestampStr \o sg.generated
    /\ Len(sg.generated) = IntOf(sg.length) - TimestampLength

\* C5's case: a call with a timestamp and more enabled classes than
\* length - timestampLength has returned.
C5_Witness ==
  /\ sg.pc = "returned"
  /\ IsInteger(sg.length)
  /\ TimestampEnabled
  /\ Cardinality(EnabledClasses) > IntOf(sg.length) - TimestampLength

\* C6: whenever the number of enabled classes is <= length - timestampLength,
\* the generated part holds at least one character of each enabled class's
\* alphabet.
C6_EachEnabledClassPresent ==
  (/\ sg.pc = "returned"
   /\ H(Cardinality(EnabledClasses)) <= sg.length - H(TimestampLength)) =>
    \A c \in EnabledClasses :
      \E k \in 1 .. Len(sg.generated) : sg.generated[k] \in SeqRange(Alphabet(c))

\* C6 for a length that is an integer.
C6_IntegerLength ==
  (/\ sg.pc = "returned"
   /\ IsInteger(sg.length)
   /\ H(Cardinality(EnabledClasses)) <= sg.length - H(TimestampLength)) =>
    \A c \in EnabledClasses :
      \E k \in 1 .. Len(sg.generated) : sg.generated[k] \in SeqRange(Alphabet(c))

\* C15: every character after the timestamp is in the alphabet of an enabled
\* class (the custom string if given, else the default), so a character that
\* only a disabled class has never appears.
C15_OnlyEnabledAlphabets ==
  sg.pc = "returned" =>
    /\ sg.result = sg.timestampStr \o sg.generated
    /\ \A k \in 1 .. Len(sg.generated) :
         \E c \in EnabledClasses : sg.generated[k] \in SeqRange(Alphabet(c))

\* C15's case: a call with a custom alphabet and a switched-off class has
\* returned characters.
C15_Witness ==
  /\ sg.pc = "returned"
  /\ \E c \in Classes : GivenSet(c).kind = "string" /\ Enabled(c)
  /\ \E c \in Classes : ~Enabled(c)
  /\ Len(sg.generated) >= 2

LengthError == sg.length < H(1)
ConfigurationError == TimestampEnabled /\ sg.length <= H(TimestampLength)
NoClassError == EnabledClasses = {}

\* C16: secureGenerate fails exactly when length < 1, or the timestamp is
\* enabled and length <= the timestamp's length, or no class is enabled; the
\* error is that of a case that holds (the length error whenever length < 1),
\* there is no string, and in every other case a string is returned.
C16_FailsExactlyWhen ==
  Generated =>
    /\ sg.pc = "thrown" <=> (LengthError \/ ConfigurationError \/ NoClassError)
    /\ sg.pc = "thrown" =>
         /\ sg.result = << >> /\ sg.generated = << >>
         /\ sg.error \in {ERR_LENGTH, ERR_TIMESTAMP(TimestampLength), ERR_NO_CHARSET}
         /\ sg.error = ERR_LENGTH <=> LengthError
         /\ sg.error = ERR_TIMESTAMP(TimestampLength) => ConfigurationError
         /\ sg.error = ERR_NO_CHARSET => NoClassError
    /\ sg.pc = "returned" => sg.error = ""

\* C16's cases: a call has failed for want of a class, its selectors false or
\* empty strings.
C16_Witness ==
  /\ sg.pc = "thrown"
  /\ sg.error = ERR_NO_CHARSET
  /\ \E c \in Classes : GivenSet(c).kind = "string"

\* C25: with the timestamp enabled and a length that is not above the
\* timestamp's, the call fails with the timestamp error, also when the
\* length is 0 or negative.
C25_TimestampErrorFirst ==
  (Generated /\ ConfigurationError) =>
    /\ sg.pc = "thrown"
    /\ sg.error = ERR_TIMESTAMP(TimestampLength)

\* C25 for the lengths that the length check lets through.
C25_LengthAtLeastOne ==
  (Generated /\ ConfigurationError /\ ~LengthError) =>
    /\ sg.pc = "thrown"
    /\ sg.error = ERR_TIMESTAMP(TimestampLength)

\* A call with a timestamp of two characters and the length 2 has thrown.
C25_TimestampThrown ==
  /\ sg.pc = "thrown"
  /\ TimestampLength = 2
  /\ sg.length = H(2)

\* The raw words on which random.next(n) returns j: the words the loop of the
\* draw (min = 0, range = n, no exclusion) accepts with candidate j.
WordsSelecting(n, j) ==
  {raw \in Words :
     /\ ~Redraw(raw, CandidateOf(0, n, raw), MaxSafeOf(n), NoIgnore)
     /\ CandidateOf(0, n, raw) = j}
\* The accepted raw words on which charset[random.next(charset.length)] is c.
CharWords(charset, c) ==
  UNION {WordsSelecting(Len(charset), k - 1) :
           k \in {l \in 1 .. Len(charset) : charset[l] = c}}
Occurrences(charset, c) == Cardinality({k \in 1 .. Len(charset) : charset[k] = c})
\* The filler loop is drawing from a charset that one raw word can index.
Filling == sg.pc = "fill" /\ Len(sg.charset) <= Word

EnabledInOrder == SelectSeq(ClassNames, Enabled)
GuaranteedDraws ==
  [k \in 1 .. Len(EnabledInOrder) |-> Len(Alphabet(EnabledInOrder[k]))]
\* The cumulative alphabet: the enabled alphabets, one after the other.
CumulativeLength ==
  LET RECURSIVE Sum(_)
      Sum(k) == IF k = 0 THEN 0 ELSE GuaranteedDraws[k] + Sum(k - 1)
  IN  Sum(Len(GuaranteedDraws))
\* max(0, length - timestampLength - enabledClasses), in half units
FillerDraws ==
  LET d == sg.length - H(TimestampLength) - H(Len(EnabledInOrder))
  IN  IF d > 0 THEN d ELSE 0
\* The draws of a call with n filler draws, in their order.
DrawsWith(n) ==
  GuaranteedDraws \o [k \in 1 .. n |-> CumulativeLength]
    \o MaxesOf(Len(GuaranteedDraws) + n)
StartsWith(s, t) == Len(t) <= Len(s) /\ SubSeq(s, 1, Len(t)) = t
\* The draws made so far are the first draws of the claimed order.
DrawsInOrder ==
  \E n \in 0 .. IntOf(FillerDraws) + 1 :
    /\ H(n) = FillerDraws
    /\ StartsWith(DrawsWith(n), sg.draws)
    /\ sg.pc = "returned" => sg.draws = DrawsWith(n)

\* C27: a call that does not throw makes one session and on it, in this order, one
\* draw per enabled class over the size of the class's alphabet (uppercase,
\* lowercase, digits, specials), max(0, length - timestampLength -
\* enabledClasses) draws over the size of the cumulative alphabet and the
\* draws of the shuffle; a call that throws has made no draw.
C27_DrawsInOrder ==
  sg.pc # "idle" =>
    /\ sg.pc = "thrown" => sg.draws = << >>
    /\ sg.pc # "thrown" => (sg.sessions = 1 /\ DrawsInOrder)

\* C27 for a length that is an integer.
C27_IntegerLength ==
  (sg.pc # "idle" /\ IsInteger(sg.length)) =>
    /\ sg.pc = "thrown" => sg.draws = << >>
    /\ sg.pc # "thrown" => (sg.sessions = 1 /\ DrawsInOrder)

\* A call of the length 4.5 with the four default classes has returned after
\* one filler draw.
C27_HalfFiller ==
  /\ sg.pc = "returned"
  /\ ~IsInteger(sg.length)
  /\ Len(sg.randomChars) = 1
  /\ FillerDraws = 1

\* ---------------------------------------- sanitizeObject: what is claimed

Sanitized == sz.pc \in {"returned", "thrown"}

Objects(values) == {values[k].ref : k \in {l \in 1 .. Len(values) : IsObject(values[l])}}

\* The objects that an object holds as array elements or as values of own
\* enumerable string-keyed properties.
Held(node) == Objects(<<node.e, node.p>>)
\* The same, an array's properties other than its elements left out.
HeldByElements(node) ==
  IF node.isArray THEN Objects(<<node.e>>) ELSE Objects(<<node.e, node.p>>)

RECURSIVE ReachableFrom(_, _)
ReachableFrom(heap, S) ==
  LET T == S \cup UNION {Held(heap[n]) : n \in S}
  IN  IF T = S THEN S ELSE ReachableFrom(heap, T)

RECURSIVE ReachableByElements(_, _)
ReachableByElements(heap, S) ==
  LET T == S \cup UNION {HeldByElements(heap[n]) : n \in S}
  IN  IF T = S THEN S ELSE ReachableByElements(heap, T)

C20_Configurable ==
  (/\ Sanitized
   /\ IsObject(sz.obj) =>
        \A n \in ReachableByElements(sz.before, {sz.obj.ref}) :
          sz.before[n].locked = "no" \/ sz.before[n].own = {}) =>
    /\ sz.pc = "returned"
    /\ sz.result = sz.obj
    /\ IF IsObject(sz.obj)
         THEN \A n \in ReachableFrom(sz.heap, {sz.obj.ref}) : sz.heap[n].own = {}
         ELSE sz.heap = sz.before

\* C20 for those heaps, an array's properties other than its elements not
\* counted as a way to an object.
C20_ConfigurableByElements ==
  (/\ Sanitized
   /\ IsObject(sz.obj) =>
        \A n \in ReachableByElements(sz.before, {sz.obj.ref}) :
          sz.before[n].locked = "no" \/ sz.before[n].own = {}) =>
    /\ sz.pc = "returned"
    /\ sz.result = sz.obj
    /\ IF IsObject(sz.obj)
         THEN /\ \A n \in ReachableByElements(sz.heap, {sz.obj.ref}) :
                   sz.heap[n].own = {}
              /\ sz.seen = ReachableByElements(sz.heap, {sz.obj.ref})
         ELSE sz.heap = sz.before

\* A call on three objects with dangerous keys, one in an array, has returned.
C20_DeepReturned ==
  /\ sz.pc = "returned"
  /\ sz.visits = MaxNodes
  /\ \A n \in Nodes : sz.before[n].own # {}
  /\ \E n \in Nodes : sz.before[n].isArray

\* A call has thrown on a frozen object held by the argument.
C20_Thrown ==
  /\ sz.pc = "thrown"
  /\ sz.visits >= 2

NonPlain == {"Date", "Map", "Set", "Function"}

\* C21: a Date, Map, Set or function, given as the argument or held inside
\* a plain object or an array, is not visited and keeps all its own
\* properties.
C21_NonPlainUntouched ==
  Sanitized =>
    \A n \in Nodes :
      sz.before[n].class \in NonPlain =>
        /\ n \notin sz.seen
        /\ sz.heap[n] = sz.before[n]

\* C21 for functions alone.
C21_FunctionsUntouched ==
  Sanitized =>
    \A n \in Nodes :
      sz.before[n].class = "Function" =>
        /\ n \notin sz.seen
        /\ sz.heap[n] = sz.before[n]

\* A function with an own prototype, held by the argument, after the call.
C21_FunctionHeld ==
  /\ sz.pc = "returned"
  /\ IsObject(sz.obj)
  /\ sz.heap[sz.obj.ref].e.kind = "function"
  /\ sz.heap[sz.heap[sz.obj.ref].e.ref].own # {}

NoRepeat(s) == \A k, l \in 1 .. Len(s) : k # l => s[k] # s[l]

\* C22: the call ends on every heap (cycles, self-references and shared
\* objects included), no object is processed twice, and the properties other
\* than the three dangerous names hold the values they held.
C22_TerminatesOncePerNode ==
  /\ [](NoRepeat(sz.order) /\ Len(sz.order) = sz.visits
          /\ Len(sz.order) <= MaxNodes)
  /\ [](sz.pc # "idle" =>
          \A n \in Nodes :
            /\ sz.heap[n].e = sz.before[n].e
            /\ sz.heap[n].p = sz.before[n].p
            /\ sz.heap[n].h = sz.before[n].h)
  /\ (sz.pc = "visit" ~> Sanitized)

\* C22's case: a call on an object that holds itself and a second object has
\* returned, both processed.
C22_Witness ==
  /\ sz.pc = "returned"
  /\ IsObject(sz.obj)
  /\ sz.heap[sz.obj.ref].e = sz.obj
  /\ Len(sz.order) >= 2

=============================================================================
